---- MODULE Spec2Model ----
(***************************************************************************)
(* The snake agents of snake_game_agents: the planning agent of            *)
(* Utilitybased.py (Game.run, Game.auto_control and the search and scoring *)
(* routines it calls), the learning agent of Learning.py (QLearningAgent,  *)
(* Game.learning_control, Game.run) and the Snake class of the variants.   *)
(*                                                                         *)
(* Coordinates are pixels, as in the source: a cell is SIZE x SIZE and     *)
(* every position is a multiple of SIZE.  Python lists are sequences, so   *)
(* segment i of the source (0-based) is index i+1 here.                    *)
(***************************************************************************)
EXTENDS Integers, Sequences, FiniteSets, TLC

\* ---------------------------------------------------------------- constants

\* Utilitybased.py:12
SIZE == 40
\* Utilitybased.py:186, pygame.display.set_mode((1000, 800))
ScreenW == 1000
ScreenH == 800
\* Utilitybased.py:450
max_iterations == 200
\* Utilitybased.py:557, the default of _flood_fill_count's max_depth
max_depth == 50
\* Learning.py:106, the defaults of QLearningAgent.__init__, in tenths:
\* learning_rate=0.1, discount_factor=0.9, epsilon=0.2
learning_rate == 1
discount_factor == 9
epsilon_default == 2
\* Action values (Learning.py:143, np.zeros: float64) are held in millionths
\* and every product is rounded to a millionth.
Scale == 1000000

\* ------------------------------------------------------------------- bounds

\* The scaled arena of Spec and SpecAgent is Cols x Rows cells.
Cols == 4
Rows == 4
\* The snake is fed until it has this many segments: with the keyboard
\* (Spec), with the agent alone on the scaled arena (SpecAgent) and on the
\* full arena (SpecArena).
KeysMaxLen == 2
MaxLen == 5
ArenaMaxLen == 3
\* The learning game (SpecLearn) is followed for this many ticks.
LearnMaxTicks == 6
\* The learning agent alone (SpecPolicy) makes this many updates.
MaxLearns == 2
\* The pen of SpecPen is PenCols x PenRows cells and holds a snake of at
\* most PenMaxLen segments that is about to eat.
PenCols == 3
PenRows == 3
PenMaxLen == 4
\* The snake of the 10 x 10 scenario (SpecScenario) is fed up to this length.
ScenarioMaxLen == 2

\* The longest snake of SpecLong.
LongMaxLen == 46

\* The largest cap, short of the default, a flood fill is asked for.
MaxCap == 3

\* The graphs handed to dfs have the nodes 1..DfsNodes and up to MaxDegree
\* neighbours per node.
DfsNodes == 4
MaxDegree == 2

\* The capacities handed to water_jug_bfs are 0..MaxJug, the targets up to
\* the two largest capacities together.
MaxJug == 3

\* The graphs handed to a_star have the nodes 1..AStarNodes.
AStarNodes == 4

\* -------------------------------------------------------------------- state

VARIABLES
    surface,    \* <<width, height>> of Game.surface
    snake_x,    \* Snake.x
    snake_y,    \* Snake.y
    direction,  \* Snake.direction
    apple_x,    \* Apple.x
    apple_y,    \* Apple.y
    running,    \* Game.run's local: cleared by Escape / QUIT
    pause,      \* Game.run's local: set by a collision, cleared by Enter
    pc,         \* Game.run's position: "events", "play", "check", "done"
    path,       \* auto_control's local: the result of _find_path_astar
    stage,      \* the stage of auto_control's cascade that decided
    dir0,       \* the heading on entry of the last auto_control
    moved,      \* the direction of the last Snake.walk ("none" before the first)
    q_table,    \* QLearningAgent.q_table: state -> action values
    lr,         \* QLearningAgent.lr, in tenths
    epsilon,    \* QLearningAgent.epsilon, in tenths
    prev_state, \* Game.prev_state of the learning game
    prev_action,\* Game.prev_action of the learning game
    apple_count,\* Apple.count of the learning game
    learned,    \* the calls of QLearningAgent.learn made by the last step
    ticks,      \* the number of timed walks made so far
    graph,      \* the argument `graph` of dfs and a_star
    start_node, \* the argument `start_node` of dfs and a_star
    marked,     \* the local `visited` of dfs, a_star and water_jug_bfs
    stack,      \* the local `stack` of dfs
    traversal_order, \* the local `traversal_order` of dfs
    jug1_capacity, \* the argument `jug1_capacity` of water_jug_bfs
    jug2_capacity, \* the argument `jug2_capacity` of water_jug_bfs
    jug_target, \* the argument `target` of water_jug_bfs
    jug_queue,  \* the local `queue` of water_jug_bfs
    parent,     \* the local `parent` of water_jug_bfs
    printed,    \* the path water_jug_bfs printed
    goal_node,  \* the argument `goal_node` of a_star
    heuristic,  \* the argument `heuristic` of a_star, as a table
    open_set,   \* the local `open_set` of a_star
    passes,     \* the passes water_jug_bfs or a_star has made through its loop
    result      \* what water_jug_bfs or a_star returned, once it has

vars == <<surface, snake_x, snake_y, direction, apple_x, apple_y,
          running, pause, pc, path, stage, dir0, moved,
          q_table, lr, epsilon, prev_state, prev_action, apple_count,
          learned, ticks,
          graph, start_node, marked, stack, traversal_order,
          jug1_capacity, jug2_capacity, jug_target, jug_queue, parent,
          printed, goal_node, heuristic, open_set, passes, result>>

\* What the planning game leaves alone: the learning agent and its game.
Learner == <<q_table, lr, epsilon, prev_state, prev_action, apple_count, learned>>

\* What the games leave alone: the arguments and locals of the search
\* functions.
Searches == <<graph, start_node, marked, stack, traversal_order,
              jug1_capacity, jug2_capacity, jug_target, jug_queue, parent,
              printed, goal_node, heuristic, open_set, passes, result>>

\* What dfs and a_star leave alone: the arguments and locals of
\* water_jug_bfs.
Jugs == <<jug1_capacity, jug2_capacity, jug_target, jug_queue, parent, printed>>

\* What dfs and water_jug_bfs leave alone: the arguments and locals that
\* only a_star has.
AStars == <<goal_node, heuristic, open_set>>

\* water_jug_bfs has not been called.
NoJugs ==
    /\ jug1_capacity = 0
    /\ jug2_capacity = 0
    /\ jug_target = 0
    /\ jug_queue = <<>>
    /\ parent = <<>>
    /\ printed = <<>>

\* a_star has not been called.
NoAStars ==
    /\ goal_node = 0
    /\ heuristic = <<>>
    /\ open_set = <<>>

\* No search function has been called.
NoSearches ==
    /\ graph = <<>>
    /\ start_node = 0
    /\ marked = {}
    /\ stack = <<>>
    /\ traversal_order = <<>>
    /\ NoJugs
    /\ NoAStars
    /\ passes = 0
    /\ result = "none"

Directions == {"left", "right", "up", "down"}

\* Snake.length: the source keeps it equal to len(Snake.x).
length == Len(snake_x)

\* The unit delta of a heading, as Snake.walk applies it.
Delta(d) ==
    CASE d = "left"  -> <<-SIZE, 0>>
      [] d = "right" -> <<SIZE, 0>>
      [] d = "up"    -> <<0, -SIZE>>
      [] d = "down"  -> <<0, SIZE>>
      [] OTHER       -> <<0, 0>>

\* The dictionary `opposites` of _is_opposite_direction.
opposites(d) ==
    CASE d = "left"  -> "right"
      [] d = "right" -> "left"
      [] d = "up"    -> "down"
      [] d = "down"  -> "up"
      [] OTHER       -> "none"

\* ------------------------------------------------------------------- Snake

\* move_left without its guard against a U-turn.
move_left_unguarded(d) == "left"

\* The heading after Snake.move_left, move_right, move_up, move_down
\* called with heading d.
move_left(d)  == IF d # "right" THEN "left" ELSE d
move_right(d) == IF d # "left" THEN "right" ELSE d
move_up(d)    == IF d # "down" THEN "up" ELSE d
move_down(d)  == IF d # "up" THEN "down" ELSE d

\* walk with the body loop running from the head to the tail, so that
\* every segment ends on the head's old place.
walk_ascending(xs, ys, d) ==
    LET n == Len(xs)
    IN  [x |-> [i \in 1..n |-> IF i > 1 THEN xs[1] ELSE xs[1] + Delta(d)[1]],
         y |-> [i \in 1..n |-> IF i > 1 THEN ys[1] ELSE ys[1] + Delta(d)[2]]]

\* Snake.walk on body <<xs, ys>> with heading d: the body after the call.
walk(xs, ys, d) ==
    LET n == Len(xs)
    IN  [x |-> [i \in 1..n |-> IF i > 1 THEN xs[i - 1] ELSE xs[1] + Delta(d)[1]],
         y |-> [i \in 1..n |-> IF i > 1 THEN ys[i - 1] ELSE ys[1] + Delta(d)[2]]]

\* Snake.increase_length: a new segment at the tail's position.
increase_length(xs, ys) ==
    [x |-> Append(xs, xs[Len(xs)]), y |-> Append(ys, ys[Len(ys)])]

\* Snake.get_positions, as a set (Apple.move only tests membership).
get_positions(xs, ys) == {<<xs[i], ys[i]>> : i \in 1..Len(xs)}

\* -------------------------------------------------------------------- Apple

\* range(0, stop, SIZE)
Range0(stop) == {v \in 0..(IF stop > 0 THEN stop - 1 ELSE 0) : v % SIZE = 0 /\ v < stop}

\* Apple.move, lines 63-68: the cells its two loops keep.
valid_positions(snake_positions) ==
    {p \in Range0(surface[1] - SIZE) \X Range0(surface[2] - SIZE) :
        p \notin snake_positions}

\* Apple.move: the positions random.choice / random.randint can produce.
apple_move(snake_positions) ==
    LET grid_width  == surface[1] \div SIZE
        grid_height == surface[2] \div SIZE
    IN  IF valid_positions(snake_positions) # {}
        THEN valid_positions(snake_positions)
        ELSE {<<i * SIZE, j * SIZE>> : i \in 0..(grid_width - 1), j \in 0..(grid_height - 1)}

\* Apple.move: what the call hands back to Game.play.  Neither branch has a
\* return statement and neither raises, so it is None for every argument.
apple_move_returns(snake_positions) == "None"

\* --------------------------------------------------------- collision checks

\* Game._would_collide, had it looked at the walls only.
_would_collide_walls_only(x, y) ==
    \/ x < 0 \/ x >= surface[1]
    \/ y < 0 \/ y >= surface[2]

\* Game._would_collide
_would_collide(x, y) ==
    \/ x < 0 \/ x >= surface[1]
    \/ y < 0 \/ y >= surface[2]
    \/ \E i \in 2..length : x = snake_x[i] /\ y = snake_y[i]

\* Game.is_collision
is_collision(x1, y1, x2, y2) == x1 = x2 /\ y1 = y2

\* Game.self_collision on body <<xs, ys>>
self_collision(xs, ys) ==
    IF Len(xs) < 4 THEN FALSE
    ELSE \E i \in 5..Len(xs) : is_collision(xs[1], ys[1], xs[i], ys[i])

\* Game.check_wall_collision for a head at <<hx, hy>>
check_wall_collision(hx, hy) ==
    hx < 0 \/ hx >= surface[1] \/ hy < 0 \/ hy >= surface[2]

\* ------------------------------------------------------------- path search

\* The neighbour deltas in the order of get_neighbors: up, down, left, right.
NeighborDeltas == << <<0, -SIZE>>, <<0, SIZE>>, <<-SIZE, 0>>, <<SIZE, 0>> >>

\* get_neighbors with the last delta, the step to the right, left out.
get_neighbors_no_right(x, y) ==
    LET cand == [k \in 1..3 |-> <<x + NeighborDeltas[k][1], y + NeighborDeltas[k][2]>>]
    IN  SelectSeq(cand, LAMBDA p :
            /\ 0 <= p[1] /\ p[1] < surface[1]
            /\ 0 <= p[2] /\ p[2] < surface[2]
            /\ ~_would_collide(p[1], p[2]))

\* get_neighbors of _find_path_astar
get_neighbors(x, y) ==
    LET cand == [k \in 1..4 |-> <<x + NeighborDeltas[k][1], y + NeighborDeltas[k][2]>>]
    IN  SelectSeq(cand, LAMBDA p :
            /\ 0 <= p[1] /\ p[1] < surface[1]
            /\ 0 <= p[2] /\ p[2] < surface[2]
            /\ ~_would_collide(p[1], p[2]))

\* The result of a search that found nothing (Python's None).
NoPath == [found |-> FALSE, path |-> <<>>, iterations |-> 0]

\* The for loop over the neighbours of the dequeued cell (lines 460-464).
RECURSIVE bfs_enqueue(_, _, _, _, _)
bfs_enqueue(nbrs, k, queue, visited, cur_path) ==
    IF k > Len(nbrs) THEN [queue |-> queue, visited |-> visited]
    ELSE IF nbrs[k] \in visited
         THEN bfs_enqueue(nbrs, k + 1, queue, visited, cur_path)
         ELSE bfs_enqueue(nbrs, k + 1,
                          Append(queue, [x |-> nbrs[k][1], y |-> nbrs[k][2],
                                         path |-> Append(cur_path, nbrs[k])]),
                          visited \cup {nbrs[k]}, cur_path)

\* bfs_step taking the newest entry of the queue (pop) instead of the
\* oldest (popleft): a depth-first search.
bfs_step_lifo(s, goal_x, goal_y) ==
    IF s.done THEN s
    ELSE IF s.queue = <<>> \/ ~(s.iterations < max_iterations)
    THEN [s EXCEPT !.done = TRUE]
    ELSE LET cur == s.queue[Len(s.queue)]
         IN  IF cur.x = goal_x /\ cur.y = goal_y
             THEN [s EXCEPT !.done = TRUE, !.found = TRUE, !.path = cur.path,
                            !.iterations = @ + 1]
             ELSE LET r == bfs_enqueue(get_neighbors(cur.x, cur.y), 1,
                                       SubSeq(s.queue, 1, Len(s.queue) - 1),
                                       s.visited, cur.path)
                  IN  [s EXCEPT !.queue = r.queue, !.visited = r.visited,
                                !.iterations = @ + 1]

\* bfs_step with the cap tested by <= instead of <: one pass too many.
bfs_step_off_by_one(s, goal_x, goal_y) ==
    IF s.done THEN s
    ELSE IF s.queue = <<>> \/ ~(s.iterations <= max_iterations)
    THEN [s EXCEPT !.done = TRUE]
    ELSE LET cur == Head(s.queue)
         IN  IF cur.x = goal_x /\ cur.y = goal_y
             THEN [s EXCEPT !.done = TRUE, !.found = TRUE, !.path = cur.path,
                            !.iterations = @ + 1]
             ELSE LET r == bfs_enqueue(get_neighbors(cur.x, cur.y), 1,
                                       Tail(s.queue), s.visited, cur.path)
                  IN  [s EXCEPT !.queue = r.queue, !.visited = r.visited,
                                !.iterations = @ + 1]

\* One pass of the while loop of _find_path_astar (lines 453-464) on the
\* loop state s; a finished search is left as it is.
bfs_step(s, goal_x, goal_y) ==
    IF s.done THEN s
    ELSE IF s.queue = <<>> \/ ~(s.iterations < max_iterations)
    THEN [s EXCEPT !.done = TRUE]
    ELSE LET cur == Head(s.queue)
         IN  IF cur.x = goal_x /\ cur.y = goal_y
             THEN [s EXCEPT !.done = TRUE, !.found = TRUE, !.path = cur.path,
                            !.iterations = @ + 1]
             ELSE LET r == bfs_enqueue(get_neighbors(cur.x, cur.y), 1,
                                       Tail(s.queue), s.visited, cur.path)
                  IN  [s EXCEPT !.queue = r.queue, !.visited = r.visited,
                                !.iterations = @ + 1]

\* n passes of the loop, halving n so that the evaluation stays shallow.
RECURSIVE bfs_run(_, _, _, _)
bfs_run(s, n, goal_x, goal_y) ==
    IF s.done \/ n = 0 THEN s
    ELSE IF n = 1 THEN bfs_step(s, goal_x, goal_y)
    ELSE bfs_run(bfs_run(s, n \div 2, goal_x, goal_y), n - n \div 2, goal_x, goal_y)

\* The while loop of _find_path_astar run to its end (lines 453-466).
RECURSIVE bfs_loop(_, _, _)
bfs_loop(s, goal_x, goal_y) ==
    IF s.done THEN s ELSE bfs_loop(bfs_run(s, 64, goal_x, goal_y), goal_x, goal_y)

\* Game._find_path_astar: found is FALSE for None; iterations counts the
\* cells dequeued.
_find_path_astar(start_x, start_y, goal_x, goal_y) ==
    LET r == bfs_loop([queue |-> << [x |-> start_x, y |-> start_y,
                                    path |-> << <<start_x, start_y>> >>] >>,
                       visited |-> {<<start_x, start_y>>},
                       iterations |-> 0, done |-> FALSE, found |-> FALSE,
                       path |-> <<>>],
                      goal_x, goal_y)
    IN  [found |-> r.found, path |-> r.path, iterations |-> r.iterations]

\* ----------------------------------------------------------- move scoring

\* Scores are Python floats in the source.  Here a sub-score is an integer
\* number of hundredths of a point (0..10000 for 0..100) and the weighted
\* total an integer number of thousandths, every division rounded down.

\* The integer square root (math.sqrt, rounded down).
RECURSIVE isqrt_iter(_, _)
isqrt_iter(n, r) ==
    LET r2 == (r + n \div r) \div 2
    IN  IF r2 >= r THEN r ELSE isqrt_iter(n, r2)

isqrt(n) == IF n <= 0 THEN 0 ELSE isqrt_iter(n, n)

\* math.sqrt(dx ** 2 + dy ** 2), in units of 1/sqrt(1000) pixel.
distance(dx, dy) == isqrt(1000 * (dx * dx + dy * dy))

\* distance_score of _calculate_move_score (lines 499-501)
distance_score(x, y, ax, ay) ==
    LET distance_to_apple == distance(ax - x, ay - y)
        max_distance == distance(surface[1], surface[2])
    IN  ((max_distance - distance_to_apple) * 10000) \div max_distance

\* Game._calculate_safety_score: the 24 cells of the 5x5 block around <<x, y>>.
_calculate_safety_score(x, y) ==
    LET offs == {-2 * SIZE, -SIZE, 0, SIZE, 2 * SIZE}
        cells == {d \in offs \X offs : ~(d[1] = 0 /\ d[2] = 0)}
        total_spaces == Cardinality(cells)
        safe_spaces == Cardinality({d \in cells : ~_would_collide(x + d[1], y + d[2])})
    IN  IF total_spaces > 0 THEN (safe_spaces * 10000) \div total_spaces ELSE 0

\* Game._calculate_mobility_score
_calculate_mobility_score(x, y) ==
    LET future_moves == Cardinality({k \in 1..4 :
            ~_would_collide(x + NeighborDeltas[k][1], y + NeighborDeltas[k][2])})
    IN  (future_moves * 10000) \div 4

\* The for loop that appends the neighbours of a counted cell (lines 576-579).
RECURSIVE flood_push(_, _, _, _, _, _)
flood_push(k, queue, visited, x, y, depth) ==
    IF k > 4 THEN queue
    ELSE LET n == <<x + NeighborDeltas[k][1], y + NeighborDeltas[k][2]>>
         IN  flood_push(k + 1,
                        IF n \in visited THEN queue
                        ELSE Append(queue, <<n[1], n[2], depth + 1>>),
                        visited, x, y, depth)

\* The loop body without its test of `visited` on the cell it takes from
\* the queue.
flood_step_recount(s, cap) ==
    IF s.done THEN s
    ELSE IF s.queue = <<>> \/ ~(s.count < cap)
    THEN [s EXCEPT !.done = TRUE]
    ELSE LET e == Head(s.queue)
             rest == Tail(s.queue)
         IN  IF e[3] > cap
             THEN [s EXCEPT !.queue = rest]
             ELSE IF _would_collide(e[1], e[2])
             THEN [s EXCEPT !.queue = rest]
             ELSE LET v == s.visited \cup {<<e[1], e[2]>>}
                  IN  [s EXCEPT !.queue = flood_push(1, rest, v, e[1], e[2], e[3]),
                                !.visited = v, !.count = @ + 1]

\* One pass of the while loop of _flood_fill_count (lines 563-579) on the
\* loop state s; a finished fill is left as it is.
flood_step(s, cap) ==
    IF s.done THEN s
    ELSE IF s.queue = <<>> \/ ~(s.count < cap)
    THEN [s EXCEPT !.done = TRUE]
    ELSE LET e == Head(s.queue)
             rest == Tail(s.queue)
         IN  IF <<e[1], e[2]>> \in s.visited \/ e[3] > cap
             THEN [s EXCEPT !.queue = rest]
             ELSE IF _would_collide(e[1], e[2])
             THEN [s EXCEPT !.queue = rest]
             ELSE LET v == s.visited \cup {<<e[1], e[2]>>}
                  IN  [s EXCEPT !.queue = flood_push(1, rest, v, e[1], e[2], e[3]),
                                !.visited = v, !.count = @ + 1]

\* n passes of the loop, halving n so that the evaluation stays shallow.
RECURSIVE flood_run(_, _, _)
flood_run(s, n, cap) ==
    IF s.done \/ n = 0 THEN s
    ELSE IF n = 1 THEN flood_step(s, cap)
    ELSE flood_run(flood_run(s, n \div 2, cap), n - n \div 2, cap)

\* The while loop of _flood_fill_count run to its end (lines 563-581).
RECURSIVE flood_loop(_, _)
flood_loop(s, cap) ==
    IF s.done THEN s ELSE flood_loop(flood_run(s, 64, cap), cap)

\* Game._flood_fill_count(start_x, start_y, cap)
_flood_fill_count(start_x, start_y, cap) ==
    flood_loop([queue |-> << <<start_x, start_y, 0>> >>, visited |-> {},
                count |-> 0, done |-> FALSE], cap).count

\* _calculate_trap_avoidance_score with no partial credit: 0 for any fill
\* short of min_required_space.
_calculate_trap_avoidance_score_all_or_nothing(x, y) ==
    LET accessible_spaces == _flood_fill_count(x, y, max_depth)
        min_required_space == length + 5
    IN  IF accessible_spaces >= min_required_space THEN 10000 ELSE 0

\* Game._calculate_trap_avoidance_score: the flood fill runs with the
\* default max_depth.
_calculate_trap_avoidance_score(x, y) ==
    LET accessible_spaces == _flood_fill_count(x, y, max_depth)
        min_required_space == length + 5
    IN  IF accessible_spaces >= min_required_space THEN 10000
        ELSE (accessible_spaces * 10000) \div min_required_space

\* _calculate_move_score with every weight 1.0: the plain sum of the
\* sub-scores, in thousandths of a point.
_calculate_move_score_unweighted(x, y, ax, ay) ==
      distance_score(x, y, ax, ay) * 10
    + _calculate_safety_score(x, y) * 10
    + _calculate_mobility_score(x, y) * 10
    + _calculate_trap_avoidance_score(x, y) * 10

\* Game._calculate_move_score: the weights 0.4, 0.3, 0.2, 0.1 as 4, 3, 2, 1
\* tenths, so the total is in thousandths of a point.
_calculate_move_score(x, y, ax, ay) ==
      distance_score(x, y, ax, ay) * 4
    + _calculate_safety_score(x, y) * 3
    + _calculate_mobility_score(x, y) * 2
    + _calculate_trap_avoidance_score(x, y) * 1

\* ------------------------------------------------------ the decision cascade

\* Game._is_opposite_direction
_is_opposite_direction(d) == d = opposites(direction)

\* _get_direction_to_position without its last branch: None for a step down.
_get_direction_to_position_no_down(from_x, from_y, to_x, to_y) ==
    LET dx == to_x - from_x
        dy == to_y - from_y
    IN  IF dx < 0 THEN "left"
        ELSE IF dx > 0 THEN "right"
        ELSE IF dy < 0 THEN "up"
        ELSE "none"

\* Game._get_direction_to_position ("none" for None)
_get_direction_to_position(from_x, from_y, to_x, to_y) ==
    LET dx == to_x - from_x
        dy == to_y - from_y
    IN  IF dx < 0 THEN "left"
        ELSE IF dx > 0 THEN "right"
        ELSE IF dy < 0 THEN "up"
        ELSE IF dy > 0 THEN "down"
        ELSE "none"

\* _execute_move assigning the heading itself, past the guards of
\* Snake.move_*.
_execute_move_unguarded(d) == IF d \in Directions THEN d ELSE direction

\* Game._execute_move: the heading after the call.
_execute_move(d) ==
    CASE d = "left"  -> move_left(direction)
      [] d = "right" -> move_right(direction)
      [] d = "up"    -> move_up(direction)
      [] d = "down"  -> move_down(direction)
      [] OTHER       -> direction

\* The list `directions` of _evaluate_moves, in its order.
EvalOrder == <<"left", "right", "up", "down">>

\* _evaluate_moves with the collision test inverted: it skips the
\* candidates that would not collide.
_evaluate_moves_inverted(head_x, head_y, ax, ay) ==
    LET cand == [k \in 1..4 |->
                    [direction |-> EvalOrder[k],
                     x |-> head_x + Delta(EvalOrder[k])[1],
                     y |-> head_y + Delta(EvalOrder[k])[2]]]
        kept == SelectSeq(cand, LAMBDA c :
                    /\ ~_is_opposite_direction(c.direction)
                    /\ _would_collide(c.x, c.y))
    IN  [k \in 1..Len(kept) |->
            [direction |-> kept[k].direction,
             score |-> _calculate_move_score(kept[k].x, kept[k].y, ax, ay)]]

\* Game._evaluate_moves: the scored candidates, in the order of the list.
_evaluate_moves(head_x, head_y, ax, ay) ==
    LET cand == [k \in 1..4 |->
                    [direction |-> EvalOrder[k],
                     x |-> head_x + Delta(EvalOrder[k])[1],
                     y |-> head_y + Delta(EvalOrder[k])[2]]]
        kept == SelectSeq(cand, LAMBDA c :
                    /\ ~_is_opposite_direction(c.direction)
                    /\ ~_would_collide(c.x, c.y))
    IN  [k \in 1..Len(kept) |->
            [direction |-> kept[k].direction,
             score |-> _calculate_move_score(kept[k].x, kept[k].y, ax, ay)]]

\* max() keeping the last candidate of maximal score, not the first.
best_move_last(possible_moves) ==
    LET k == CHOOSE i \in 1..Len(possible_moves) :
                /\ \A j \in 1..Len(possible_moves) :
                        possible_moves[j].score <= possible_moves[i].score
                /\ \A j \in (i + 1)..Len(possible_moves) :
                        possible_moves[j].score < possible_moves[i].score
    IN  possible_moves[k]

\* max(possible_moves, key=score): the first candidate of maximal score.
best_move(possible_moves) ==
    LET k == CHOOSE i \in 1..Len(possible_moves) :
                /\ \A j \in 1..Len(possible_moves) :
                        possible_moves[j].score <= possible_moves[i].score
                /\ \A j \in 1..(i - 1) :
                        possible_moves[j].score < possible_moves[i].score
    IN  possible_moves[k]

\* The list `directions` of _emergency_move, in its order.
EmergencyOrder == <<"up", "down", "left", "right">>

\* _emergency_move without its second loop, the least bad move.
_emergency_move_one_loop(head_x, head_y) ==
    LET safe == SelectSeq(EmergencyOrder, LAMBDA d :
                    /\ ~_is_opposite_direction(d)
                    /\ ~_would_collide(head_x + Delta(d)[1], head_y + Delta(d)[2]))
    IN  IF safe # <<>> THEN [called |-> TRUE, direction |-> _execute_move(safe[1])]
        ELSE [called |-> FALSE, direction |-> direction]

\* Game._emergency_move: called is FALSE when both loops end without a move.
_emergency_move(head_x, head_y) ==
    LET safe == SelectSeq(EmergencyOrder, LAMBDA d :
                    /\ ~_is_opposite_direction(d)
                    /\ ~_would_collide(head_x + Delta(d)[1], head_y + Delta(d)[2]))
        any  == SelectSeq(EmergencyOrder, LAMBDA d : ~_is_opposite_direction(d))
    IN  IF safe # <<>> THEN [called |-> TRUE, direction |-> _execute_move(safe[1])]
        ELSE IF any # <<>> THEN [called |-> TRUE, direction |-> _execute_move(any[1])]
        ELSE [called |-> FALSE, direction |-> direction]

\* auto_control leaving the heading as it found it.
auto_control_idle ==
    [direction |-> direction, stage |-> "undecided",
     path |-> _find_path_astar(snake_x[1], snake_y[1], apple_x, apple_y)]

\* Game.auto_control: the heading it leaves, the stage that decided
\* ("undecided" when no stage made a move) and the result of the search.
auto_control ==
    LET head_x == snake_x[1]
        head_y == snake_y[1]
        p == _find_path_astar(head_x, head_y, apple_x, apple_y)
        d == IF p.found /\ Len(p.path) > 1
             THEN _get_direction_to_position(head_x, head_y, p.path[2][1], p.path[2][2])
             ELSE "none"
    IN  IF d # "none"
        THEN [direction |-> _execute_move(d), stage |-> "path", path |-> p]
        ELSE LET possible_moves == _evaluate_moves(head_x, head_y, apple_x, apple_y)
             IN  IF possible_moves # <<>>
                 THEN [direction |-> _execute_move(best_move(possible_moves).direction),
                       stage |-> "score", path |-> p]
                 ELSE LET e == _emergency_move(head_x, head_y)
                      IN  [direction |-> e.direction,
                           stage |-> IF e.called THEN "emergency" ELSE "undecided",
                           path |-> p]

\* ------------------------------------------------------- the learning agent

\* Game.__init__ of Learning.py: QLearningAgent(actions=[...]) (line 179).
actions == <<"left", "right", "up", "down">>

\* Python's None where a state (a tuple) and where an action (a string) is
\* expected.
None == <<>>
NoneAction == "None"

\* np.zeros(len(self.actions))
zeros == <<0, 0, 0, 0>>

\* The product of a rate in tenths and a value, rounded to the nearest unit.
times(tenths, v) == (2 * tenths * v + 10) \div 20

\* np.max and np.argmax (the first index of the maximum).
np_max(v) == CHOOSE m \in {v[i] : i \in 1..Len(v)} : \A i \in 1..Len(v) : v[i] <= m
np_argmax(v) ==
    CHOOSE i \in 1..Len(v) : v[i] = np_max(v) /\ \A j \in 1..(i - 1) : v[j] # np_max(v)

\* QLearningAgent.get_state keeping the differences instead of their signs.
get_state_unsigned(head_x, head_y, ax, ay, d) ==
    LET dir_code == CASE d = "left"  -> 0
                      [] d = "right" -> 1
                      [] d = "up"    -> 2
                      [] d = "down"  -> 3
                      [] OTHER       -> -1
    IN  <<ax - head_x, ay - head_y, dir_code>>

\* QLearningAgent.get_state
get_state(head_x, head_y, ax, ay, d) ==
    LET dx == IF ax > head_x THEN 1 ELSE IF ax < head_x THEN -1 ELSE 0
        dy == IF ay > head_y THEN 1 ELSE IF ay < head_y THEN -1 ELSE 0
        dir_code == CASE d = "left"  -> 0
                      [] d = "right" -> 1
                      [] d = "up"    -> 2
                      [] d = "down"  -> 3
                      [] OTHER       -> -1
    IN  <<dx, dy, dir_code>>

\* QLearningAgent.choose_action: the actions it can return.  np.random.rand()
\* is in [0, 1): it can be below epsilon when epsilon > 0, and not below it
\* when epsilon < 1.
choose_action(state) ==
    (IF epsilon > 0 \/ state \notin DOMAIN q_table
     THEN {actions[i] : i \in 1..Len(actions)} ELSE {})
    \cup
    (IF epsilon < 10 /\ state \in DOMAIN q_table
     THEN {actions[np_argmax(q_table[state])]} ELSE {})

\* The table after a miss on `state`: q_table[state] = np.zeros(...).
with_zeros(table, state) ==
    IF state \in DOMAIN table THEN table ELSE table @@ (state :> zeros)

\* QLearningAgent.learn, with the target of a terminal transition also
\* taken from the next state.
learn_bootstrapping(state, action, reward, next_state) ==
    LET t1 == with_zeros(q_table, state)
        t2 == IF next_state # None THEN with_zeros(t1, next_state) ELSE t1
    IN  IF \A i \in 1..Len(actions) : actions[i] # action
        THEN t2
        ELSE LET action_index == CHOOSE i \in 1..Len(actions) : actions[i] = action
                 predict == t2[state][action_index]
                 from == IF next_state = None THEN state ELSE next_state
                 target == reward * Scale + times(discount_factor, np_max(t2[from]))
             IN  [t2 EXCEPT ![state][action_index] = predict + times(lr, target - predict)]

\* QLearningAgent.learn, with the default learning rate in place of self.lr.
learn_default_rate(state, action, reward, next_state) ==
    LET t1 == with_zeros(q_table, state)
        t2 == IF next_state # None THEN with_zeros(t1, next_state) ELSE t1
    IN  IF \A i \in 1..Len(actions) : actions[i] # action
        THEN t2
        ELSE LET action_index == CHOOSE i \in 1..Len(actions) : actions[i] = action
                 predict == t2[state][action_index]
                 target == IF next_state = None
                           THEN reward * Scale
                           ELSE reward * Scale + times(discount_factor, np_max(t2[next_state]))
             IN  [t2 EXCEPT ![state][action_index] =
                                predict + times(learning_rate, target - predict)]

\* QLearningAgent.learn with the value of the next state taken in full,
\* not discounted.
learn_undiscounted(state, action, reward, next_state) ==
    LET t1 == with_zeros(q_table, state)
        t2 == IF next_state # None THEN with_zeros(t1, next_state) ELSE t1
    IN  IF \A i \in 1..Len(actions) : actions[i] # action
        THEN t2
        ELSE LET action_index == CHOOSE i \in 1..Len(actions) : actions[i] = action
                 predict == t2[state][action_index]
                 target == IF next_state = None
                           THEN reward * Scale
                           ELSE reward * Scale + np_max(t2[next_state])
             IN  [t2 EXCEPT ![state][action_index] = predict + times(lr, target - predict)]

\* QLearningAgent.learn: the table after the call.  self.actions.index raises
\* ValueError for an action that is no member, after the two insertions.
learn(state, action, reward, next_state) ==
    LET t1 == with_zeros(q_table, state)
        t2 == IF next_state # None THEN with_zeros(t1, next_state) ELSE t1
    IN  IF \A i \in 1..Len(actions) : actions[i] # action
        THEN t2
        ELSE LET action_index == CHOOSE i \in 1..Len(actions) : actions[i] = action
                 predict == t2[state][action_index]
                 target == IF next_state = None
                           THEN reward * Scale
                           ELSE reward * Scale + times(discount_factor, np_max(t2[next_state]))
             IN  [t2 EXCEPT ![state][action_index] = predict + times(lr, target - predict)]

\* ------------------------------------------------------------ the game loop

\* Snake.__init__ and Apple.__init__: the state Game.__init__ and Game.reset
\* build.
NewSnake == [x |-> <<SIZE>>, y |-> <<SIZE>>, direction |-> "down"]
NewApple == [x |-> 3 * SIZE, y |-> 3 * SIZE]

\* The cells the random source of Apple.move is drawn from on the full
\* arena: one next to the start, the farthest cell range() yields, and one
\* in the middle.
Probes ==
    {<<2 * SIZE, SIZE>>, <<ScreenW - 2 * SIZE, ScreenH - 2 * SIZE>>,
     <<12 * SIZE, 10 * SIZE>>}

\* The outcomes of random.choice the model explores: all of them on the
\* scaled arena, those among Probes on the full arena.
Outcomes(valid) ==
    IF surface = <<ScreenW, ScreenH>> THEN valid \cap Probes ELSE valid

\* The top of `while running`.
LoopTop == IF running THEN "events" ELSE "done"

Locals == <<path, stage, dir0>>

\* KEYDOWN K_ESCAPE, or QUIT (lines 663-664, 684-685).
Quit ==
    /\ UNCHANGED Searches
    /\ pc = "events"
    /\ running' = FALSE
    /\ UNCHANGED <<surface, snake_x, snake_y, direction, apple_x, apple_y,
                   pause, pc, moved>>
    /\ UNCHANGED Locals
    /\ UNCHANGED <<Learner, ticks>>

\* KEYDOWN K_RETURN: pause = False; self.reset() (lines 666-672, 229-235).
KeyReturn ==
    /\ UNCHANGED Searches
    /\ pc = "events"
    /\ pause' = FALSE
    /\ snake_x' = NewSnake.x
    /\ snake_y' = NewSnake.y
    /\ direction' = NewSnake.direction
    /\ apple_x' = NewApple.x
    /\ apple_y' = NewApple.y
    /\ moved' = "none"
    /\ UNCHANGED <<surface, running, pc>>
    /\ UNCHANGED Locals
    /\ UNCHANGED <<Learner, ticks>>

\* KEYDOWN K_LEFT, K_RIGHT, K_UP, K_DOWN while not paused (lines 674-682).
KeyArrow(k) ==
    /\ UNCHANGED Searches
    /\ pc = "events"
    /\ ~pause
    /\ direction' = (CASE k = "left"  -> move_left(direction)
                       [] k = "right" -> move_right(direction)
                       [] k = "up"    -> move_up(direction)
                       [] k = "down"  -> move_down(direction))
    /\ UNCHANGED <<surface, snake_x, snake_y, apple_x, apple_y, running, pause,
                   pc, moved>>
    /\ UNCHANGED Locals
    /\ UNCHANGED <<Learner, ticks>>

\* auto_control that also walks the snake along the heading it chose.
AutoControl_walking ==
    /\ UNCHANGED Searches
    /\ pc = "events"
    /\ ~pause
    /\ LET r == auto_control
           w == walk(snake_x, snake_y, r.direction)
       IN  /\ direction' = r.direction
           /\ stage' = r.stage
           /\ path' = r.path
           /\ snake_x' = w.x
           /\ snake_y' = w.y
    /\ dir0' = direction
    /\ pc' = "play"
    /\ UNCHANGED <<surface, apple_x, apple_y, running, pause, moved>>
    /\ UNCHANGED <<Learner, ticks>>

\* The event queue is empty and the game is not paused: auto_control
\* (lines 688-689).
AutoControl ==
    /\ UNCHANGED Searches
    /\ pc = "events"
    /\ ~pause
    /\ LET r == auto_control
       IN  /\ direction' = r.direction
           /\ stage' = r.stage
           /\ path' = r.path
    /\ dir0' = direction
    /\ pc' = "play"
    /\ UNCHANGED <<surface, snake_x, snake_y, apple_x, apple_y, running, pause, moved>>
    /\ UNCHANGED <<Learner, ticks>>

\* The event queue is empty and the game is paused: neither auto_control
\* nor play runs (lines 688-700).
Idle ==
    /\ UNCHANGED Searches
    /\ pc = "events"
    /\ pause
    /\ pc' = LoopTop
    /\ UNCHANGED <<surface, snake_x, snake_y, direction, apple_x, apple_y,
                   running, pause, moved>>
    /\ UNCHANGED Locals
    /\ UNCHANGED <<Learner, ticks>>

\* Game.play, first part: self.snake.walk() (line 306).
Walk ==
    /\ UNCHANGED Searches
    /\ pc = "play"
    /\ LET w == walk(snake_x, snake_y, direction)
       IN  snake_x' = w.x /\ snake_y' = w.y
    /\ moved' = direction
    /\ pc' = "check"
    /\ UNCHANGED <<surface, direction, apple_x, apple_y, running, pause>>
    /\ UNCHANGED Locals
    /\ UNCHANGED <<Learner, ticks>>

\* The same, counted: the walks of a run are numbered from 1.
TimedWalk ==
    /\ UNCHANGED Searches
    /\ pc = "play"
    /\ LET w == walk(snake_x, snake_y, direction)
       IN  snake_x' = w.x /\ snake_y' = w.y
    /\ moved' = direction
    /\ pc' = "check"
    /\ ticks' = ticks + 1
    /\ UNCHANGED <<surface, direction, apple_x, apple_y, running, pause>>
    /\ UNCHANGED Locals
    /\ UNCHANGED Learner

\* Game.play, the rest: the apple, then the collisions, whose exception
\* Game.run turns into pause = True (lines 312-335, 692-700).  A snake of
\* cap segments is fed no more.
Check(cap) ==
    /\ UNCHANGED Searches
    /\ pc = "check"
    /\ LET ate == is_collision(snake_x[1], snake_y[1], apple_x, apple_y)
           grown == IF ate THEN increase_length(snake_x, snake_y)
                    ELSE [x |-> snake_x, y |-> snake_y]
       IN  /\ ate => length < cap
           /\ snake_x' = grown.x
           /\ snake_y' = grown.y
           /\ IF ate
              THEN \E p \in Outcomes(apple_move(get_positions(grown.x, grown.y))) :
                        apple_x' = p[1] /\ apple_y' = p[2]
              ELSE UNCHANGED <<apple_x, apple_y>>
           /\ pause' = (self_collision(grown.x, grown.y)
                        \/ check_wall_collision(grown.x[1], grown.y[1]))
    /\ pc' = LoopTop
    /\ path' = NoPath
    /\ stage' = "none"
    /\ dir0' = "none"
    /\ UNCHANGED <<surface, direction, running, moved>>
    /\ UNCHANGED <<Learner, ticks>>

\* QLearningAgent.__init__ with its defaults (Learning.py, lines 106-111).
NewAgent ==
    /\ q_table = <<>>
    /\ lr = learning_rate
    /\ epsilon = epsilon_default

\* Game.__init__ on an arena of w x h pixels.
InitGame(w, h) ==
    /\ NoSearches
    /\ surface = <<w, h>>
    /\ snake_x = NewSnake.x
    /\ snake_y = NewSnake.y
    /\ direction = NewSnake.direction
    /\ apple_x = NewApple.x
    /\ apple_y = NewApple.y
    /\ running = TRUE
    /\ pause = FALSE
    /\ pc = "events"
    /\ path = NoPath
    /\ stage = "none"
    /\ dir0 = "none"
    /\ moved = "none"
    /\ NewAgent
    /\ prev_state = None
    /\ prev_action = NoneAction
    /\ apple_count = 0
    /\ learned = <<>>
    /\ ticks = 0

\* Game.run on the scaled arena, with the keyboard.
Init == InitGame(Cols * SIZE, Rows * SIZE)

Next ==
    \/ Quit
    \/ KeyReturn
    \/ \E k \in Directions : KeyArrow(k)
    \/ AutoControl
    \/ Idle
    \/ Walk
    \/ Check(KeysMaxLen)

Spec == Init /\ [][Next]_vars

\* Game.run on the scaled arena, no key pressed: the agent alone steers.
NextAgent ==
    \/ AutoControl
    \/ Idle
    \/ Walk
    \/ Check(MaxLen)

SpecAgent == Init /\ [][NextAgent]_vars

\* Game.run on the full arena, no key pressed.  No snake of ArenaMaxLen
\* segments collides there, so the loop never idles.
InitArena == InitGame(ScreenW, ScreenH)

NextArena ==
    \/ AutoControl
    \/ Walk
    \/ Check(ArenaMaxLen)

SpecArena == InitArena /\ [][NextArena]_vars

\* ------------------------------------------------------------------ the pen

\* The cells of the pen.
PenCells == {<<i * SIZE, j * SIZE>> : i \in 0..(PenCols - 1), j \in 0..(PenRows - 1)}

\* The bodies of n segments, head first: the trail of the last n cells of a
\* head that moved from cell to adjacent cell inside the pen without
\* crossing its own body.
RECURSIVE Trails(_)
Trails(n) ==
    IF n = 1 THEN {<<c>> : c \in PenCells}
    ELSE UNION {{Append(t, c) : c \in {d \in PenCells :
                                          /\ \E k \in Directions :
                                                d = <<t[Len(t)][1] + Delta(k)[1],
                                                      t[Len(t)][2] + Delta(k)[2]>>
                                          /\ \A i \in 1..Len(t) : t[i] # d}}
                : t \in Trails(n - 1)}

\* Game.play between its walk and its apple test, the head on the apple:
\* a game in the pen in which a snake of up to PenMaxLen segments has just
\* walked onto an apple Apple.move placed (never in the last column or row).
InitPen ==
    /\ NoSearches
    /\ surface = <<PenCols * SIZE, PenRows * SIZE>>
    /\ \E n \in 1..PenMaxLen : \E t \in Trails(n) :
          /\ snake_x = [i \in 1..n |-> t[i][1]]
          /\ snake_y = [i \in 1..n |-> t[i][2]]
          /\ t[1][1] < surface[1] - SIZE
          /\ t[1][2] < surface[2] - SIZE
          /\ direction \in Directions
          /\ n > 1 => t[1] = <<t[2][1] + Delta(direction)[1], t[2][2] + Delta(direction)[2]>>
    /\ apple_x = snake_x[1]
    /\ apple_y = snake_y[1]
    /\ moved = direction
    /\ running = TRUE
    /\ pause = FALSE
    /\ pc = "check"
    /\ path = NoPath
    /\ stage = "none"
    /\ dir0 = "none"
    /\ NewAgent
    /\ prev_state = None
    /\ prev_action = NoneAction
    /\ apple_count = 0
    /\ learned = <<>>
    /\ ticks = 0

\* Game.run in the pen from there on, no key pressed.
NextPen ==
    \/ AutoControl
    \/ Idle
    \/ Walk
    \/ Check(PenMaxLen + 1)

SpecPen == InitPen /\ [][NextPen]_vars

\* Game.run in the pen from there on, the arrow keys pressed at will
\* before auto_control runs.
NextPenKeys ==
    \/ \E k \in Directions : KeyArrow(k)
    \/ AutoControl
    \/ Idle
    \/ Walk
    \/ Check(PenMaxLen + 1)

SpecPenKeys == InitPen /\ [][NextPenKeys]_vars

\* ------------------------------------------------------------- the scenario

\* An empty grid of 10 x 10 cells, the goal in the far corner.
ScenarioGrid == <<10 * SIZE, 10 * SIZE>>
ScenarioGoal == <<9 * SIZE, 9 * SIZE>>

\* Game.__init__ on that grid with the snake in the near corner: one
\* segment, heading down as Snake.__init__ leaves it.
InitScenario ==
    /\ NoSearches
    /\ surface = ScenarioGrid
    /\ snake_x = <<0>>
    /\ snake_y = <<0>>
    /\ direction = NewSnake.direction
    /\ apple_x = ScenarioGoal[1]
    /\ apple_y = ScenarioGoal[2]
    /\ running = TRUE
    /\ pause = FALSE
    /\ pc = "events"
    /\ path = NoPath
    /\ stage = "none"
    /\ dir0 = "none"
    /\ moved = "none"
    /\ NewAgent
    /\ prev_state = None
    /\ prev_action = NoneAction
    /\ apple_count = 0
    /\ learned = <<>>
    /\ ticks = 0

\* Game.run from there, no key pressed, the walks counted.  No snake of
\* ScenarioMaxLen segments collides there, so the loop never idles.
NextScenario ==
    \/ AutoControl
    \/ TimedWalk
    \/ Check(ScenarioMaxLen)

SpecScenario == InitScenario /\ [][NextScenario]_vars

\* ----------------------------------------------------------- the long snake

\* The k-th cell, counted from 0, of the trail that runs along the first
\* row from the left wall to the last column Apple.move can choose, and
\* back along the next row, and so on.
TrailCell(k) ==
    LET cols == (ScreenW \div SIZE) - 1
        row == k \div cols
        col == IF row % 2 = 0 THEN k % cols ELSE cols - 1 - (k % cols)
    IN  <<col * SIZE, row * SIZE>>

\* The heading of a head that has just walked from cell a to cell b.
HeadingFrom(a, b) ==
    IF b[1] < a[1] THEN "left"
    ELSE IF b[1] > a[1] THEN "right"
    ELSE IF b[2] < a[2] THEN "up"
    ELSE "down"

\* Game.run on the full arena late in a game: the snake has grown to
\* LongMaxLen segments, or one less, and lies stretched out along that
\* trail; the apple is where Apple.move last put it.
InitLong ==
    /\ NoSearches
    /\ surface = <<ScreenW, ScreenH>>
    /\ \E n \in {LongMaxLen - 1, LongMaxLen} :
          /\ snake_x = [i \in 1..n |-> TrailCell(n - i)[1]]
          /\ snake_y = [i \in 1..n |-> TrailCell(n - i)[2]]
          /\ direction = HeadingFrom(TrailCell(n - 2), TrailCell(n - 1))
    /\ \E p \in Probes :
          /\ \A i \in 1..Len(snake_x) : p # <<snake_x[i], snake_y[i]>>
          /\ apple_x = p[1]
          /\ apple_y = p[2]
    /\ running = TRUE
    /\ pause = FALSE
    /\ pc = "events"
    /\ path = NoPath
    /\ stage = "none"
    /\ dir0 = "none"
    /\ moved = direction
    /\ NewAgent
    /\ prev_state = None
    /\ prev_action = NoneAction
    /\ apple_count = 0
    /\ learned = <<>>
    /\ ticks = 0

\* Game.run from there, no key pressed.
NextLong ==
    \/ AutoControl
    \/ Walk
    \/ Check(LongMaxLen + 1)

SpecLong == InitLong /\ [][NextLong]_vars

\* -------------------------------------------------------- the learning game

\* Apple.__init__ of Learning.py: the positions Apple.move cycles through
\* (lines 26-33).
x_list ==
    <<320, 160, 680, 280, 400, 240, 960, 80, 40, 760, 720, 880, 400, 680, 480,
      480, 520, 160, 760, 480, 720, 360, 960, 160, 80, 400, 760, 680, 760, 800>>
y_list ==
    <<560, 40, 440, 280, 240, 560, 80, 200, 240, 80, 80, 520, 720, 360, 680,
      760, 680, 320, 80, 360, 720, 120, 280, 280, 320, 680, 320, 40, 520, 600>>

\* Apple.move of Learning.py
learning_apple_move(count) ==
    [x |-> x_list[count + 1], y |-> y_list[count + 1],
     count |-> (count + 1) % Len(x_list)]

\* Snake.increase_length of Learning.py and Learning2.py
learning_increase_length(xs, ys) ==
    [x |-> Append(xs, -1), y |-> Append(ys, -1)]

\* Game.is_collision of Learning.py
learning_is_collision(x1, y1, x2, y2) ==
    x1 >= x2 /\ x1 < x2 + SIZE /\ y1 >= y2 /\ y1 < y2 + SIZE

\* Game.self_collision of Learning.py
learning_self_collision(xs, ys) ==
    \E i \in 4..Len(xs) : learning_is_collision(xs[1], ys[1], xs[i], ys[i])

\* The four-way branch of Game.learning_control that applies the action.
apply_action(action, d) ==
    CASE action = "left"  -> move_left(d)
      [] action = "right" -> move_right(d)
      [] action = "up"    -> move_up(d)
      [] action = "down"  -> move_down(d)
      [] OTHER            -> d

\* Game.play of Learning.py, which pays nothing for the apple.
learning_play_unpaid(xs, ys, d, ax, ay, count) ==
    LET w == walk(xs, ys, d)
    IN  IF learning_is_collision(w.x[1], w.y[1], ax, ay)
        THEN LET g == learning_increase_length(w.x, w.y)
                 a == learning_apple_move(count)
             IN  [x |-> g.x, y |-> g.y, apple_x |-> a.x, apple_y |-> a.y,
                  count |-> a.count, reward |-> 0]
        ELSE [x |-> w.x, y |-> w.y, apple_x |-> ax, apple_y |-> ay,
              count |-> count, reward |-> 0]

\* Game.play of Learning.py: the snake, the apple and the reward after it.
learning_play(xs, ys, d, ax, ay, count) ==
    LET w == walk(xs, ys, d)
    IN  IF learning_is_collision(w.x[1], w.y[1], ax, ay)
        THEN LET g == learning_increase_length(w.x, w.y)
                 a == learning_apple_move(count)
             IN  [x |-> g.x, y |-> g.y, apple_x |-> a.x, apple_y |-> a.y,
                  count |-> a.count, reward |-> 10]
        ELSE [x |-> w.x, y |-> w.y, apple_x |-> ax, apple_y |-> ay,
              count |-> count, reward |-> 0]

\* One call of QLearningAgent.learn, as `learned` records it.
Call(state, action, reward, next_state) ==
    [state |-> state, action |-> action, reward |-> reward, next_state |-> next_state]

\* KEYDOWN K_RETURN of Learning.py, had reset made a new agent too.
LearnReturn_forgetting ==
    /\ UNCHANGED Searches
    /\ pc = "events"
    /\ pause' = FALSE
    /\ snake_x' = NewSnake.x
    /\ snake_y' = NewSnake.y
    /\ direction' = NewSnake.direction
    /\ apple_x' = NewApple.x
    /\ apple_y' = NewApple.y
    /\ apple_count' = 0
    /\ prev_state' = None
    /\ prev_action' = NoneAction
    /\ moved' = "none"
    /\ q_table' = <<>>
    /\ UNCHANGED <<surface, running, pc, lr, epsilon, learned, ticks>>
    /\ UNCHANGED Locals

\* KEYDOWN K_RETURN of Learning.py: pause = False; self.reset() (lines
\* 314-316, 189-195).  The agent and its table stay.
LearnReturn ==
    /\ UNCHANGED Searches
    /\ pc = "events"
    /\ pause' = FALSE
    /\ snake_x' = NewSnake.x
    /\ snake_y' = NewSnake.y
    /\ direction' = NewSnake.direction
    /\ apple_x' = NewApple.x
    /\ apple_y' = NewApple.y
    /\ apple_count' = 0
    /\ prev_state' = None
    /\ prev_action' = NoneAction
    /\ moved' = "none"
    /\ UNCHANGED <<surface, running, pc, q_table, lr, epsilon, learned, ticks>>
    /\ UNCHANGED Locals

\* The event queue is empty and the game is not paused: learning_control,
\* whose exception Game.run turns into pause = True (lines 271-301, 321-326).
LearningControl ==
    /\ UNCHANGED Searches
    /\ pc = "events"
    /\ ~pause
    /\ ticks < LearnMaxTicks
    /\ LET state == get_state(snake_x[1], snake_y[1], apple_x, apple_y, direction)
       IN  \E action \in choose_action(state) :
             LET d == apply_action(action, direction)
                 p == learning_play(snake_x, snake_y, d, apple_x, apple_y, apple_count)
                 hit == \/ learning_self_collision(p.x, p.y)
                        \/ check_wall_collision(p.x[1], p.y[1])
             IN  /\ direction' = d
                 /\ moved' = d
                 /\ snake_x' = p.x
                 /\ snake_y' = p.y
                 /\ apple_x' = p.apple_x
                 /\ apple_y' = p.apple_y
                 /\ apple_count' = p.count
                 /\ IF hit
                    THEN /\ q_table' = learn(prev_state, prev_action, -10, None)
                         /\ learned' = <<Call(prev_state, prev_action, -10, None)>>
                         /\ pause' = TRUE
                         /\ UNCHANGED <<prev_state, prev_action>>
                    ELSE /\ IF prev_state # None /\ prev_action # NoneAction
                            THEN /\ q_table' = learn(prev_state, prev_action, p.reward, state)
                                 /\ learned' =
                                        <<Call(prev_state, prev_action, p.reward, state)>>
                            ELSE /\ q_table' = q_table
                                 /\ learned' = <<>>
                         /\ prev_state' = state
                         /\ prev_action' = action
                         /\ pause' = FALSE
    /\ ticks' = ticks + 1
    /\ pc' = LoopTop
    /\ UNCHANGED <<surface, running, lr, epsilon>>
    /\ UNCHANGED Locals

\* Game.__init__ of Learning.py: the arena, snake and apple of the planning
\* game, and a new agent.
InitLearn == InitGame(ScreenW, ScreenH)

\* Game.run of Learning.py.  K_SPACE and QUIT end the loop as Escape does in
\* the planning game, and a paused game idles the same way.
NextLearn ==
    \/ Quit
    \/ LearnReturn
    \/ LearningControl
    \/ Idle

SpecLearn == InitLearn /\ [][NextLearn]_vars

\* --------------------------------------------------- the learning agent alone

\* The states and rewards the agent is driven with: the state of a new game
\* (apple down right, heading down), one with the apple straight above, and
\* the three rewards of Game.learning_control.
PolicyStates == {<<1, 1, 3>>, <<0, -1, 2>>}
Rewards == {-10, 0, 10}

\* QLearningAgent.__init__: learning_rate and epsilon as the caller passes
\* them (in tenths), and the table empty (Learning.py) or loaded from a
\* previous session (Learning2.py, load_q_table).
AgentConfigs == {<<learning_rate, epsilon_default>>, <<0, 0>>, <<5, 0>>, <<10, epsilon_default>>}
LoadedTables == {<<>>, (<<1, 1, 3>> :> <<-Scale, 0, 0, Scale>>)}

\* A caller's self.agent.choose_action(state), kept as Game.learning_control
\* keeps it.
Choose(state) ==
    /\ UNCHANGED Searches
    /\ pc = "choose"
    /\ ticks < MaxLearns
    /\ \E action \in choose_action(state) :
          /\ prev_state' = state
          /\ prev_action' = action
    /\ learned' = <<>>
    /\ pc' = "learn"
    /\ UNCHANGED <<surface, snake_x, snake_y, direction, apple_x, apple_y,
                   running, pause, moved, q_table, lr, epsilon, apple_count, ticks>>
    /\ UNCHANGED Locals

\* A caller's self.agent.learn(prev_state, prev_action, reward, next_state).
Learn(reward, next_state) ==
    /\ UNCHANGED Searches
    /\ pc = "learn"
    /\ q_table' = learn(prev_state, prev_action, reward, next_state)
    /\ learned' = <<Call(prev_state, prev_action, reward, next_state)>>
    /\ ticks' = ticks + 1
    /\ pc' = "choose"
    /\ UNCHANGED <<surface, snake_x, snake_y, direction, apple_x, apple_y,
                   running, pause, moved, lr, epsilon, prev_state, prev_action,
                   apple_count>>
    /\ UNCHANGED Locals

InitPolicy ==
    /\ NoSearches
    /\ surface = <<ScreenW, ScreenH>>
    /\ snake_x = NewSnake.x
    /\ snake_y = NewSnake.y
    /\ direction = NewSnake.direction
    /\ apple_x = NewApple.x
    /\ apple_y = NewApple.y
    /\ running = TRUE
    /\ pause = FALSE
    /\ pc = "choose"
    /\ path = NoPath
    /\ stage = "none"
    /\ dir0 = "none"
    /\ moved = "none"
    /\ q_table \in LoadedTables
    /\ \E c \in AgentConfigs : lr = c[1] /\ epsilon = c[2]
    /\ prev_state = None
    /\ prev_action = NoneAction
    /\ apple_count = 0
    /\ learned = <<>>
    /\ ticks = 0

NextPolicy ==
    \/ \E state \in PolicyStates : Choose(state)
    \/ \E reward \in Rewards, next_state \in PolicyStates \cup {None} :
          Learn(reward, next_state)

SpecPolicy == InitPolicy /\ [][NextPolicy]_vars

\* ----------------------------------------------------------------------- dfs

\* No game is running.
NoGame ==
    /\ surface = <<0, 0>>
    /\ snake_x = <<>>
    /\ snake_y = <<>>
    /\ direction = "none"
    /\ apple_x = 0
    /\ apple_y = 0
    /\ running = FALSE
    /\ pause = FALSE
    /\ path = NoPath
    /\ stage = "none"
    /\ dir0 = "none"
    /\ moved = "none"
    /\ q_table = <<>>
    /\ lr = 0
    /\ epsilon = 0
    /\ prev_state = None
    /\ prev_action = NoneAction
    /\ apple_count = 0
    /\ learned = <<>>
    /\ ticks = 0

Games == <<surface, snake_x, snake_y, direction, apple_x, apple_y, running,
           pause, path, stage, dir0, moved, q_table, lr, epsilon, prev_state,
           prev_action, apple_count, learned, ticks>>

\* The lists of up to MaxDegree different neighbours a node can have.
NeighborLists ==
    UNION {{l \in [1..k -> 1..DfsNodes] : \A i, j \in 1..k : l[i] = l[j] => i = j}
           : k \in 0..MaxDegree}

\* The graphs dfs is called on: every node a key, or the last node only
\* ever a neighbour.
Graphs == [1..DfsNodes -> NeighborLists] \cup [1..(DfsNodes - 1) -> NeighborLists]

\* graph.get(node, [])
graph_get(node) == IF node \in DOMAIN graph THEN graph[node] ELSE <<>>

\* The for loop of dfs over reversed(neighbours), from position k down
\* (lines 31-34).
RECURSIVE dfs_push(_, _, _, _)
dfs_push(nbrs, k, vis, stk) ==
    IF k < 1 THEN [visited |-> vis, stack |-> stk]
    ELSE IF nbrs[k] \notin vis
    THEN dfs_push(nbrs, k - 1, vis \cup {nbrs[k]}, Append(stk, nbrs[k]))
    ELSE dfs_push(nbrs, k - 1, vis, stk)

\* dfs is called (lines 15-24): ValueError for a start that is no key.
DfsCall ==
    /\ pc = "call"
    /\ IF start_node \notin DOMAIN graph
       THEN /\ pc' = "raised"
            /\ UNCHANGED <<marked, stack, traversal_order>>
       ELSE /\ pc' = "loop"
            /\ marked' = {start_node}
            /\ stack' = <<start_node>>
            /\ traversal_order' = <<>>
    /\ UNCHANGED <<graph, start_node, Jugs, AStars, passes, result>>
    /\ UNCHANGED Games

\* One pass of `while stack` (lines 26-34).
DfsVisit ==
    /\ pc = "loop"
    /\ stack # <<>>
    /\ LET current_node == stack[Len(stack)]
           r == dfs_push(graph_get(current_node), Len(graph_get(current_node)),
                         marked, SubSeq(stack, 1, Len(stack) - 1))
       IN  /\ traversal_order' = Append(traversal_order, current_node)
           /\ marked' = r.visited
           /\ stack' = r.stack
    /\ UNCHANGED <<pc, graph, start_node, Jugs, AStars, passes, result>>
    /\ UNCHANGED Games

\* The stack is empty: return traversal_order (line 36).
DfsReturn ==
    /\ pc = "loop"
    /\ stack = <<>>
    /\ pc' = "returned"
    /\ UNCHANGED Searches
    /\ UNCHANGED Games

\* dfs(graph, start_node) on a graph of Graphs, from the first node, or
\* from the last when it is no key.
InitDfs ==
    /\ NoGame
    /\ graph \in Graphs
    /\ start_node \in {1, DfsNodes}
    /\ start_node = DfsNodes => DfsNodes \notin DOMAIN graph
    /\ marked = {}
    /\ stack = <<>>
    /\ traversal_order = <<>>
    /\ NoJugs
    /\ NoAStars
    /\ passes = 0
    /\ result = "none"
    /\ pc = "call"

NextDfs ==
    \/ DfsCall
    \/ DfsVisit
    \/ DfsReturn

SpecDfs == InitDfs /\ [][NextDfs]_vars

\* ------------------------------------------------------ water_jug_bfs

\* The parent of the start state (Python's None).
NoParent == <<>>

\* Python's min.
py_min(a, b) == IF a <= b THEN a ELSE b

\* possible_states (lines 37-47): fill jug 1, fill jug 2, empty jug 1,
\* empty jug 2, pour jug 1 into jug 2, pour jug 2 into jug 1.
possible_states(jug1, jug2) ==
    << <<jug1_capacity, jug2>>,
       <<jug1, jug2_capacity>>,
       <<0, jug2>>,
       <<jug1, 0>>,
       <<jug1 - py_min(jug1, jug2_capacity - jug2),
         jug2 + py_min(jug1, jug2_capacity - jug2)>>,
       <<jug1 + py_min(jug2, jug1_capacity - jug1),
         jug2 - py_min(jug2, jug1_capacity - jug1)>> >>

\* The same loop putting each new state at the front of the queue.
RECURSIVE jug_enqueue_front(_, _, _, _, _)
jug_enqueue_front(states, k, q, par, cur) ==
    IF k > Len(states) THEN [queue |-> q, parent |-> par]
    ELSE IF states[k] \notin marked \cup {cur} /\ states[k] \notin DOMAIN par
         THEN jug_enqueue_front(states, k + 1, <<states[k]>> \o q,
                                par @@ (states[k] :> cur), cur)
         ELSE jug_enqueue_front(states, k + 1, q, par, cur)

\* `for state in possible_states` (lines 49-54), from the k-th state on: a
\* state that is neither visited nor a key of parent is enqueued, with the
\* current state as its parent.
RECURSIVE jug_enqueue(_, _, _, _, _)
jug_enqueue(states, k, q, par, cur) ==
    IF k > Len(states) THEN [queue |-> q, parent |-> par]
    ELSE IF states[k] \notin marked \cup {cur} /\ states[k] \notin DOMAIN par
         THEN jug_enqueue(states, k + 1, Append(q, states[k]),
                          par @@ (states[k] :> cur), cur)
         ELSE jug_enqueue(states, k + 1, q, par, cur)

\* The backtracking of lines 20-24: the chain of parents of final_state,
\* reversed, so that it begins with the state that has no parent.
RECURSIVE backtrack(_)
backtrack(final_state) ==
    IF final_state = NoParent THEN <<>>
    ELSE Append(backtrack(parent[final_state]), final_state)

\* water_jug_bfs is called (lines 5-11).
JugCall ==
    /\ pc = "call"
    /\ pc' = "loop"
    /\ marked' = {}
    /\ jug_queue' = << <<0, 0>> >>
    /\ parent' = (<<0, 0>> :> NoParent)
    /\ UNCHANGED <<jug1_capacity, jug2_capacity, jug_target, printed, result>>
    /\ UNCHANGED <<graph, start_node, stack, traversal_order, AStars, passes>>
    /\ UNCHANGED Games

\* One pass of `while queue` (lines 13-54): the state taken from the queue
\* ends the search when its jug 1 holds the target; a visited state is
\* skipped; any other state is visited and its successors enqueued.
JugStep ==
    /\ pc = "loop"
    /\ jug_queue # <<>>
    /\ LET state == Head(jug_queue)
           jug1 == state[1]
           jug2 == state[2]
           r == jug_enqueue(possible_states(jug1, jug2), 1, Tail(jug_queue),
                            parent, state)
       IN  IF jug1 = jug_target
           THEN /\ printed' = backtrack(state)
                /\ result' = TRUE
                /\ pc' = "returned"
                /\ jug_queue' = Tail(jug_queue)
                /\ UNCHANGED <<marked, parent>>
           ELSE IF state \in marked
           THEN /\ jug_queue' = Tail(jug_queue)
                /\ UNCHANGED <<pc, marked, parent, printed, result>>
           ELSE /\ marked' = marked \cup {state}
                /\ jug_queue' = r.queue
                /\ parent' = r.parent
                /\ UNCHANGED <<pc, printed, result>>
    /\ passes' = passes + 1
    /\ UNCHANGED <<jug1_capacity, jug2_capacity, jug_target>>
    /\ UNCHANGED <<graph, start_node, stack, traversal_order, AStars>>
    /\ UNCHANGED Games

\* The queue is empty: the target cannot be reached (lines 56-57).
JugFail ==
    /\ pc = "loop"
    /\ jug_queue = <<>>
    /\ result' = FALSE
    /\ pc' = "returned"
    /\ UNCHANGED <<marked, Jugs>>
    /\ UNCHANGED <<graph, start_node, stack, traversal_order, AStars, passes>>
    /\ UNCHANGED Games

\* water_jug_bfs(jug1_capacity, jug2_capacity, target) on the three
\* integers read by lines 60-62, none of them negative.
InitJug ==
    /\ NoGame
    /\ graph = <<>>
    /\ start_node = 0
    /\ marked = {}
    /\ stack = <<>>
    /\ traversal_order = <<>>
    /\ NoAStars
    /\ jug1_capacity \in 0..MaxJug
    /\ jug2_capacity \in 0..MaxJug
    /\ jug_target \in 0..(2 * MaxJug)
    /\ jug_queue = <<>>
    /\ parent = <<>>
    /\ printed = <<>>
    /\ passes = 0
    /\ result = FALSE
    /\ pc = "call"

NextJug ==
    \/ JugCall
    \/ JugStep
    \/ JugFail

SpecJug == InitJug /\ [][NextJug]_vars

\* ------------------------------------------------ the model-based agent

\* The keys of `possible_directions` of Modelbased.py, in their order.
possible_directions == <<"left", "right", "up", "down">>

\* Game._is_valid_move of Modelbased.py for the position <<x, y>>, the model
\* holding the body without its head.
_is_valid_move(x, y) ==
    /\ ~(x < 0 \/ x >= surface[1] \/ y < 0 \/ y >= surface[2])
    /\ \A i \in 2..length : <<x, y>> # <<snake_x[i], snake_y[i]>>

\* The square of the predicted cost of a move to <<nx, ny>>: math.sqrt is
\* increasing, so the squares compare as the distances do.
predicted_cost(nx, ny) ==
    (apple_x - nx) * (apple_x - nx) + (apple_y - ny) * (apple_y - ny)

\* `safe_moves` of Modelbased.py: the directions whose cell is valid.
safe_moves ==
    SelectSeq(possible_directions, LAMBDA d :
        _is_valid_move(snake_x[1] + Delta(d)[1], snake_y[1] + Delta(d)[2]))

\* min(safe_moves, key=...): the first move of the least cost.
best_direction ==
    LET cost(d) == predicted_cost(snake_x[1] + Delta(d)[1], snake_y[1] + Delta(d)[2])
        k == CHOOSE i \in 1..Len(safe_moves) :
                /\ \A j \in 1..Len(safe_moves) : cost(safe_moves[i]) <= cost(safe_moves[j])
                /\ \A j \in 1..(i - 1) : cost(safe_moves[j]) > cost(safe_moves[i])
    IN  safe_moves[k]

\* Game.auto_control of Modelbased.py: the heading it leaves.
model_auto_control ==
    IF safe_moves # <<>> THEN _execute_move(best_direction) ELSE direction

\* The event queue is empty and the game is not paused: auto_control of
\* Modelbased.py (lines 522-523).
ModelControl ==
    /\ UNCHANGED Searches
    /\ pc = "events"
    /\ ~pause
    /\ direction' = model_auto_control
    /\ dir0' = direction
    /\ pc' = "play"
    /\ UNCHANGED <<path, stage>>
    /\ UNCHANGED <<surface, snake_x, snake_y, apple_x, apple_y, running, pause, moved>>
    /\ UNCHANGED <<Learner, ticks>>

\* Game.run of Modelbased.py, no key pressed: the snake, the apple and
\* Game.play are those of the planning game.
NextModel ==
    \/ ModelControl
    \/ Idle
    \/ Walk
    \/ Check(MaxLen)

SpecModel == Init /\ [][NextModel]_vars

\* ------------------------------------------------------------------ a_star

\* The edges a graph handed to a_star may have: the chain 1 -> 2 -> ... ->
\* AStarNodes, the shortcut 1 -> 3, the way back 3 -> 2 and the shortcut
\* 2 -> AStarNodes.
TemplateEdges ==
    [i \in 1..(AStarNodes - 1) |-> <<i, i + 1>>]
        \o << <<1, 3>>, <<3, 2>>, <<2, AStarNodes>> >>

\* The costs an edge may have, none of them negative.
Costs == {0, 1, 2}

\* The adjacency lists of the keys `keys` when the k-th edge of the template
\* costs cs[k], or is missing for cs[k] = -1.
graph_of(keys, cs) ==
    [n \in keys |->
        LET own == SelectSeq([k \in 1..Len(TemplateEdges) |-> k], LAMBDA k :
                        TemplateEdges[k][1] = n /\ cs[k] # -1)
        IN  [i \in 1..Len(own) |-> <<TemplateEdges[own[i]][2], cs[own[i]]>>]]

\* More than any path costs.
Far == 2 * AStarNodes + 1

\* The cost of the cheapest path of at most k edges from each node to the
\* node `to` in the graph g, Far when there is none.
RECURSIVE cheapest(_, _, _)
cheapest(g, to, k) ==
    IF k = 0 THEN [n \in 1..AStarNodes |-> IF n = to THEN 0 ELSE Far]
    ELSE LET d == cheapest(g, to, k - 1)
             out(n) == IF n \in DOMAIN g THEN g[n] ELSE <<>>
             via(n) == {d[out(n)[i][1]] + out(n)[i][2] : i \in 1..Len(out(n))}
             least(S) == CHOOSE v \in S : \A w \in S : v <= w
         IN  [n \in 1..AStarNodes |->
                 LET v == least(via(n) \cup {d[n]}) IN IF v > Far THEN Far ELSE v]

\* The heuristics handed to a_star, as tables: "zero" everywhere, the
\* "true" cost to the goal, and the true cost at the "even" nodes only.
\* None of them overestimates.
h_values(kind, g, to) ==
    LET d == cheapest(g, to, AStarNodes)
    IN  CASE kind = "zero" -> [n \in 1..AStarNodes |-> 0]
          [] kind = "true" -> d
          [] OTHER         -> [n \in 1..AStarNodes |-> IF n % 2 = 0 THEN d[n] ELSE 0]

\* An entry (f, g, node, path) of open_set.
Entry(f, g, node, p) == [f |-> f, g |-> g, node |-> node, path |-> p]

\* Python's order of two lists of nodes.
list_less(p, q) ==
    \E k \in 1..(Len(p) + 1) :
        /\ \A i \in 1..(k - 1) : i <= Len(q) /\ p[i] = q[i]
        /\ \/ k = Len(p) + 1 /\ Len(q) >= k
           \/ k <= Len(p) /\ k <= Len(q) /\ p[k] < q[k]

\* Python's order of two entries, which heapq goes by.
entry_less(a, b) ==
    \/ a.f < b.f
    \/ a.f = b.f /\ a.g < b.g
    \/ a.f = b.f /\ a.g = b.g /\ a.node < b.node
    \/ a.f = b.f /\ a.g = b.g /\ a.node = b.node /\ list_less(a.path, b.path)

\* heappop taking the oldest entry of the heap, whatever it costs.
heappop_oldest(heap) == 1

\* heapq.heappop: the place of the least entry of the heap (the first of
\* them, should it occur twice).
heappop(heap) ==
    CHOOSE i \in 1..Len(heap) :
        /\ \A j \in 1..Len(heap) : ~entry_less(heap[j], heap[i])
        /\ \A j \in 1..(i - 1) : heap[j] # heap[i]

\* The heap without its k-th entry.
without(heap, k) == SubSeq(heap, 1, k - 1) \o SubSeq(heap, k + 1, Len(heap))

\* `for neighbor, cost in graph.get(current_node, [])` (lines 33-36): the
\* heap after the pushes.
expand(heap, cur) ==
    LET out == graph_get(cur.node)
    IN  heap \o [i \in 1..Len(out) |->
                    Entry(cur.g + out[i][2] + heuristic[out[i][1]],
                          cur.g + out[i][2],
                          out[i][1],
                          Append(cur.path, out[i][1]))]

\* a_star is called (lines 16-21): ValueError for a start or a goal that is
\* no key.
AStarCall ==
    /\ pc = "call"
    /\ IF start_node \notin DOMAIN graph \/ goal_node \notin DOMAIN graph
       THEN /\ pc' = "raised"
            /\ UNCHANGED <<open_set, marked>>
       ELSE /\ pc' = "loop"
            /\ open_set' = <<Entry(0 + heuristic[start_node], 0, start_node,
                                   <<start_node>>)>>
            /\ marked' = <<>>
    /\ UNCHANGED <<graph, start_node, goal_node, heuristic, passes, result>>
    /\ UNCHANGED <<stack, traversal_order, Jugs>>
    /\ UNCHANGED Games

\* One pass of `while open_set` (lines 23-36).
AStarStep ==
    /\ pc = "loop"
    /\ open_set # <<>>
    /\ LET k == heappop(open_set)
           cur == open_set[k]
           rest == without(open_set, k)
       IN  IF cur.node = goal_node
           THEN /\ result' = cur.path
                /\ pc' = "returned"
                /\ open_set' = rest
                /\ UNCHANGED marked
           ELSE IF cur.node \in DOMAIN marked /\ marked[cur.node] <= cur.g
           THEN /\ open_set' = rest
                /\ UNCHANGED <<pc, marked, result>>
           ELSE /\ marked' = [n \in DOMAIN marked \cup {cur.node} |->
                                 IF n = cur.node THEN cur.g ELSE marked[n]]
                /\ open_set' = expand(rest, cur)
                /\ UNCHANGED <<pc, result>>
    /\ passes' = passes + 1
    /\ UNCHANGED <<graph, start_node, goal_node, heuristic>>
    /\ UNCHANGED <<stack, traversal_order, Jugs>>
    /\ UNCHANGED Games

\* open_set is empty: no path (line 38).
AStarFail ==
    /\ pc = "loop"
    /\ open_set = <<>>
    /\ result' = <<>>
    /\ pc' = "returned"
    /\ UNCHANGED <<graph, start_node, goal_node, heuristic, open_set, marked, passes>>
    /\ UNCHANGED <<stack, traversal_order, Jugs>>
    /\ UNCHANGED Games

\* The calls of a_star: on a graph with every node as a key, from node 1 to
\* the last node with each of the heuristics, and from node 1 to node 1; on
\* a graph whose last node is no key, from node 1 to the node before the
\* last, from node 1 to the last node, and from the last node to node 1.
AStarCalls ==
    {<<1..AStarNodes, 1, AStarNodes, "zero">>,
     <<1..AStarNodes, 1, AStarNodes, "true">>,
     <<1..AStarNodes, 1, AStarNodes, "even">>,
     <<1..AStarNodes, 1, 1, "even">>,
     <<1..(AStarNodes - 1), 1, AStarNodes - 1, "even">>,
     <<1..(AStarNodes - 1), 1, AStarNodes, "zero">>,
     <<1..(AStarNodes - 1), AStarNodes, 1, "zero">>}

InitAStar ==
    /\ NoGame
    /\ NoJugs
    /\ stack = <<>>
    /\ traversal_order = <<>>
    /\ \E call \in AStarCalls :
       \E cs \in [1..Len(TemplateEdges) -> Costs \cup {-1}] :
          /\ graph = graph_of(call[1], cs)
          /\ start_node = call[2]
          /\ goal_node = call[3]
          /\ heuristic = h_values(call[4], graph, goal_node)
    /\ open_set = <<>>
    /\ passes = 0
    /\ marked = <<>>
    /\ result = <<>>
    /\ pc = "call"

NextAStar ==
    \/ AStarCall
    \/ AStarStep
    \/ AStarFail

SpecAStar == InitAStar /\ [][NextAStar]_vars

\* ------------------------------------------------ what the claims refer to

HeadCell == <<snake_x[1], snake_y[1]>>
GoalCell == <<apple_x, apple_y>>

\* A non-blocked cell: inside the grid and on no body segment but the head.
InGrid(c) == 0 <= c[1] /\ c[1] < surface[1] /\ 0 <= c[2] /\ c[2] < surface[2]
Free(c) == InGrid(c) /\ \A i \in 2..Len(snake_x) : c # <<snake_x[i], snake_y[i]>>

Adjacent(c) ==
    {<<c[1], c[2] - SIZE>>, <<c[1], c[2] + SIZE>>,
     <<c[1] - SIZE, c[2]>>, <<c[1] + SIZE, c[2]>>}

\* Breadth-first levels from `frontier`: the distance of goal, -1 when it
\* cannot be reached, and the number of cells no farther than the goal.
RECURSIVE Levels(_, _, _, _)
Levels(frontier, seen, goal, k) ==
    IF goal \in frontier THEN [dist |-> k, ball |-> Cardinality(seen)]
    ELSE IF frontier = {} THEN [dist |-> -1, ball |-> Cardinality(seen)]
    ELSE LET nxt == {n \in UNION {Adjacent(c) : c \in frontier} : Free(n)} \ seen
         IN  Levels(nxt, seen \cup nxt, goal, k + 1)

\* The true distance from the head to the goal through non-blocked cells.
TrueDistance == Levels({HeadCell}, {HeadCell}, GoalCell, 0)

\* The heading that leads from the head to cell c, "none" if c is no
\* neighbour of the head.
HeadingTo(c) ==
    IF c = <<HeadCell[1] - SIZE, HeadCell[2]>> THEN "left"
    ELSE IF c = <<HeadCell[1] + SIZE, HeadCell[2]>> THEN "right"
    ELSE IF c = <<HeadCell[1], HeadCell[2] - SIZE>> THEN "up"
    ELSE IF c = <<HeadCell[1], HeadCell[2] + SIZE>> THEN "down"
    ELSE "none"

\* The cell a heading d leads to from the head.
CellAt(d) ==
    CASE d = "left"  -> <<HeadCell[1] - SIZE, HeadCell[2]>>
      [] d = "right" -> <<HeadCell[1] + SIZE, HeadCell[2]>>
      [] d = "up"    -> <<HeadCell[1], HeadCell[2] - SIZE>>
      [] d = "down"  -> <<HeadCell[1], HeadCell[2] + SIZE>>

Reverse(d) ==
    CASE d = "left" -> "right" [] d = "right" -> "left"
      [] d = "up" -> "down" [] d = "down" -> "up" [] OTHER -> "none"

\* auto_control has just run on the snapshot the state still shows.
Decided == pc = "play"

\* The non-reversing headings of the snapshot auto_control ran on.
NonReversing == {d \in Directions : d # Reverse(dir0)}

\* C1: Game.auto_control always ends with a decision: one stage of the
\* cascade (path search, move scoring, emergency) has set the heading, and
\* the heading is one of up, down, left, right.
C1_CascadeTotal ==
    /\ direction \in Directions
    /\ pc \in {"play", "check"} => stage \in {"path", "score", "emergency"}

\* The emergency stage decided with every non-reversing neighbour blocked.
C1_Witness ==
    /\ Decided
    /\ stage = "emergency"
    /\ \A d \in NonReversing : ~Free(CellAt(d))

\* C2: when the path stage made no move and some non-reversing neighbour
\* of the head is non-blocked, the scoring stage decides and the heading
\* it sets points to a non-blocked cell.
C2_ScoredMoveIsSafe ==
    (/\ Decided
     /\ stage # "path"
     /\ \E d \in NonReversing : Free(CellAt(d)))
    => (stage = "score" /\ Free(CellAt(direction)))

\* The scoring stage decided with a blocked and a non-blocked candidate.
C2_Witness ==
    /\ Decided
    /\ stage = "score"
    /\ \E d \in NonReversing : ~Free(CellAt(d))
    /\ Free(CellAt(direction))

\* C3: a path returned by _find_path_astar starts at the head, ends at the
\* goal, steps between 4-adjacent cells, enters only non-blocked cells and
\* has as many cells as the true breadth-first distance plus one.
C3_PathIsShortest ==
    (Decided /\ path.found) =>
        LET p == path.path
        IN  /\ Len(p) >= 1
            /\ p[1] = HeadCell
            /\ p[Len(p)] = GoalCell
            /\ \A i \in 1..(Len(p) - 1) : p[i + 1] \in Adjacent(p[i])
            /\ \A i \in 2..Len(p) : Free(p[i])
            /\ Len(p) = TrueDistance.dist + 1

\* A path that goes round the body: longer than the Manhattan distance.
C3_Witness ==
    /\ Decided
    /\ path.found
    /\ length >= 3
    /\ LET dx == apple_x - snake_x[1]
           dy == apple_y - snake_y[1]
           manhattan == (IF dx < 0 THEN -dx ELSE dx) + (IF dy < 0 THEN -dy ELSE dy)
       IN  (Len(path.path) - 1) * SIZE > manhattan

\* C4 as stated: on the full arena _find_path_astar returns a path exactly
\* when the goal is reachable from the head through non-blocked cells.
C4_PathIffReachable ==
    Decided => (path.found <=> TrueDistance.dist >= 0)

\* C4 as amended: it returns None whenever the goal is not reachable, and
\* a path whenever the goal is reachable and at most 200 cells are no
\* farther from the head than the goal.
C4_PathUnlessCapped ==
    Decided =>
        LET t == TrueDistance
        IN  /\ path.found => t.dist >= 0
            /\ (t.dist >= 0 /\ t.ball <= 200) => path.found

\* A reachable goal for which the search returns None.
C4_Witness ==
    /\ Decided
    /\ surface = <<ScreenW, ScreenH>>
    /\ ~path.found
    /\ TrueDistance.dist >= 0

\* C5: the search dequeues at most 200 cells; when it ends without the
\* goal it returns None and auto_control goes on to move scoring.
C5_CapThenScoring ==
    Decided =>
        /\ path.iterations <= 200
        /\ ~path.found => (path.path = <<>> /\ stage \in {"score", "emergency"})

\* The cap ended the search and the scoring stage decided.
C5_Witness ==
    /\ Decided
    /\ path.iterations = 200
    /\ ~path.found
    /\ stage = "score"

\* C7 as stated: whenever the search yields a path of at least 2 cells, the
\* heading after auto_control is the direction from the head to the second
\* cell, whatever the heading was before.
C7_HeadingFollowsPath ==
    (Decided /\ path.found /\ Len(path.path) >= 2)
    => direction = HeadingTo(path.path[2])

\* C7 as amended: the heading after auto_control is the direction to the
\* second cell unless that is the direct reverse of the heading before the
\* call, and then the heading is unchanged.
C7_HeadingFollowsPathUnlessReverse ==
    (Decided /\ path.found /\ Len(path.path) >= 2)
    => (/\ stage = "path"
        /\ direction = IF HeadingTo(path.path[2]) = Reverse(dir0)
                       THEN dir0
                       ELSE HeadingTo(path.path[2]))

\* The first step of the path is the reverse of the heading, which stays.
C7_Witness ==
    /\ Decided
    /\ path.found
    /\ Len(path.path) >= 2
    /\ HeadingTo(path.path[2]) = Reverse(dir0)
    /\ direction = dir0

\* C8: after Snake.move_left, move_right, move_up or move_down the heading
\* is the requested one or unchanged, and never the direct reverse of the
\* heading before the call.
C8_NoReverseUpdate ==
    [][\A k \in Directions :
          KeyArrow(k) => (/\ direction' \in {k, direction}
                          /\ direction' # Reverse(direction)
                          /\ (k # Reverse(direction) => direction' = k))]_vars

\* A key has turned the heading since the last walk.
C8_Witness ==
    /\ pc = "events"
    /\ moved \in Directions
    /\ direction # moved
    /\ direction # Reverse(moved)

\* C9: in Game.run the head never moves in the direct reverse of the
\* direction it moved in on the previous tick, whatever heading updates
\* were made between the two walks.
C9_NoReverseWalk ==
    [][(pc = "play" /\ moved # "none") => moved' # Reverse(moved)]_vars

\* C10: Snake.walk keeps the length, moves every segment behind the head
\* to the place of the segment before it and the head by the unit delta of
\* the heading.
C10_WalkShifts ==
    [][pc = "play" =>
        LET n == Len(snake_x)
        IN  /\ Len(snake_x') = n
            /\ Len(snake_y') = n
            /\ \A i \in 2..n : snake_x'[i] = snake_x[i - 1] /\ snake_y'[i] = snake_y[i - 1]
            /\ direction = "left"  => (snake_x'[1] = snake_x[1] - SIZE /\ snake_y'[1] = snake_y[1])
            /\ direction = "right" => (snake_x'[1] = snake_x[1] + SIZE /\ snake_y'[1] = snake_y[1])
            /\ direction = "up"    => (snake_x'[1] = snake_x[1] /\ snake_y'[1] = snake_y[1] - SIZE)
            /\ direction = "down"  => (snake_x'[1] = snake_x[1] /\ snake_y'[1] = snake_y[1] + SIZE)]_vars

\* A body of three or more segments, all apart, has just walked.
C10_Witness ==
    /\ pc = "check"
    /\ length >= 3
    /\ Cardinality(get_positions(snake_x, snake_y)) = length
    /\ HeadCell = <<snake_x[2] + Delta(moved)[1], snake_y[2] + Delta(moved)[2]>>

\* ------------------------------------------------------------------ growth

\* A step of the learning game in which the snake grew.
Grew == Len(snake_x') = Len(snake_x) + 1

\* C11: in every agent variant Snake.increase_length appends exactly one
\* segment, at the position the tail had before the call, and leaves the
\* segments there were and the heading as they were.  In the learning game
\* the call follows the walk of the same tick, so the body before the call
\* is the walked one.
C11_GrowthCopiesTail ==
    [][Grew =>
         LET w == walk(snake_x, snake_y, direction')
             L == Len(snake_x)
         IN  /\ Len(snake_y') = L + 1
             /\ SubSeq(snake_x', 1, L) = w.x
             /\ SubSeq(snake_y', 1, L) = w.y
             /\ snake_x'[L + 1] = w.x[L]
             /\ snake_y'[L + 1] = w.y[L]]_vars

\* -------------------------------------------------------- goal relocation

\* The cells of the grid, and a step of Game.play in which the apple was
\* eaten: the snake grew and Apple.move was called with its positions.
GridCells ==
    {<<i * SIZE, j * SIZE>> : i \in 0..((surface[1] \div SIZE) - 1),
                              j \in 0..((surface[2] \div SIZE) - 1)}
Ate == pc = "check" /\ Grew

\* C12: in the planning game, whenever the apple is eaten while some cell
\* of the grid is off the body, the apple Apple.move places is on the grid
\* and on no segment of the body.
C12_RelocatedGoalIsFree ==
    [][(Ate /\ GridCells \ get_positions(snake_x', snake_y') # {}) =>
          /\ <<apple_x', apple_y'>> \in GridCells
          /\ <<apple_x', apple_y'>> \notin get_positions(snake_x', snake_y')]_vars

\* C13: when Apple.move finds no cell free of the body, what it hands back
\* to its caller differs from what a normal relocation hands back (None).
C13_ExhaustionReported ==
    [][(Ate /\ valid_positions(get_positions(snake_x', snake_y')) = {}) =>
          apple_move_returns(get_positions(snake_x', snake_y')) # "None"]_vars

\* ------------------------------------------------------------- the scenario

\* The goal of the scenario has not been eaten yet.
BeforeGoal == length = 1 /\ GoalCell = ScenarioGoal

\* C14: on the empty 10 x 10 grid, from (0,0) heading down with the goal at
\* (9,9), the first path has 19 cells, every heading until the head is on
\* the goal is decided by the path stage, and the head is on the goal after
\* exactly 18 walks, no sooner and no later, without a collision.
C14_EighteenPathTicks ==
    /\ ticks <= 18 => ~pause
    /\ BeforeGoal =>
          /\ ticks <= 18
          /\ pc = "play" => (stage = "path" /\ path.found)
          /\ (pc = "play" /\ ticks = 0) => Len(path.path) = 19
          /\ pc = "check" => (HeadCell = ScenarioGoal <=> ticks = 18)
          /\ pc = "events" => ticks < 18

\* The head has walked onto the goal, on the eighteenth walk, sent there by
\* the path stage.
C14_Witness ==
    /\ BeforeGoal
    /\ pc = "check"
    /\ HeadCell = ScenarioGoal
    /\ ticks = 18
    /\ stage = "path"

\* -------------------------------------------------------- the learning game

\* The keys get_state is meant to produce.
StateKeys == {-1, 0, 1} \X {-1, 0, 1} \X {0, 1, 2, 3}

\* C15: whatever ticks, collisions and resets the learning game has been
\* through, every key of the Q-table is a triple (dx, dy, dir) with dx and
\* dy in {-1, 0, 1} and dir in {0, 1, 2, 3}, so there are at most 36, and
\* no call of QLearningAgent.learn was given None as its state or action.
C15_TableKeysAreStates ==
    /\ DOMAIN q_table \subseteq StateKeys
    /\ Cardinality(DOMAIN q_table) <= 36
    /\ \A i \in 1..Len(learned) :
          learned[i].state # None /\ learned[i].action # NoneAction

\* A collision has been learned from, the game was reset, and learn has
\* been called again in the new episode.
C15_Witness ==
    /\ ~pause
    /\ learned # <<>>
    /\ learned[1].next_state # None
    /\ \E s \in DOMAIN q_table : \E i \in 1..Len(actions) : q_table[s][i] < 0

Chose == pc = "choose" /\ pc' = "learn"
Learnt == pc = "learn" /\ pc' = "choose"
IndexOf(action) == CHOOSE i \in 1..Len(actions) : actions[i] = action

\* C16: with epsilon = 0, choose_action on a state that is not in the
\* Q-table returns the first action of the canonical order, the argmax of
\* an all-zero vector, on every call.
C16_UnseenGreedyIsFirst ==
    [][(Chose /\ epsilon = 0 /\ prev_state' \notin DOMAIN q_table) =>
          prev_action' = actions[1]]_vars

C18_ZeroRateKeepsTable ==
    [][(Learnt /\ lr = 0) => q_table' = q_table]_vars

\* C18, amended: with alpha = 0, learn leaves the value vector of every
\* state of the table as it was; the only keys it adds are the state and
\* the next state of the call, each with an all-zero vector.
C18_ZeroRateKeepsValues ==
    [][(Learnt /\ lr = 0) =>
          /\ \A s \in DOMAIN q_table :
                s \in DOMAIN q_table' /\ q_table'[s] = q_table[s]
          /\ \A s \in DOMAIN q_table' \ DOMAIN q_table :
                /\ s \in {learned'[1].state, learned'[1].next_state}
                /\ q_table'[s] = zeros]_vars

\* With alpha = 0, learn was called with a reward that is not 0 on an
\* entry that is not 0, and with a next state it had to add.
C18_Witness ==
    /\ pc = "choose"
    /\ lr = 0
    /\ learned # <<>>
    /\ learned[1].reward # 0
    /\ q_table[learned[1].state][IndexOf(learned[1].action)] # 0
    /\ learned[1].next_state # None
    /\ q_table[learned[1].next_state] = zeros

\* ------------------------------------------------------------ auto_control

\* C20: Game.auto_control of the planning agent changes nothing but the
\* heading of the snake: the positions of the segments, the length, the
\* goal and the dimensions of the grid are the same after the call.
C20_AutoControlFrame ==
    [][(pc = "events" /\ pc' = "play") =>
          /\ snake_x' = snake_x
          /\ snake_y' = snake_y
          /\ Len(snake_x') = Len(snake_x)
          /\ apple_x' = apple_x
          /\ apple_y' = apple_y
          /\ surface' = surface]_vars

\* auto_control has turned a snake of three or more segments.
C20_Witness ==
    /\ pc = "play"
    /\ length >= 3
    /\ direction # dir0

\* ------------------------------------------------------ the emergency stage

\* Every neighbour of the head but the one behind it is blocked, on the
\* snapshot auto_control ran on.
Cornered == \A d \in NonReversing : ~Free(CellAt(d))

\* C21: when every non-reversing neighbour of the head is blocked and the
\* cell in the reverse direction is not, the emergency stage sets the
\* heading to the reverse direction.
C21_EmergencyReverses ==
    (/\ Decided
     /\ stage = "emergency"
     /\ Cornered
     /\ Free(CellAt(Reverse(dir0))))
    => direction = Reverse(dir0)

\* C22: when all four neighbours of the head are blocked, auto_control
\* leaves the heading it found, whichever of the four it is.
C22_CommitsToHeading ==
    (/\ Decided
     /\ \A d \in Directions : ~Free(CellAt(d)))
    => direction = dir0

\* --------------------------------------------------------- the scoring stage

\* The candidates that survive rejection on the snapshot auto_control ran
\* on, and the combined score of each.
Survivors == {d \in NonReversing : Free(CellAt(d))}
ScoreOf(d) == _calculate_move_score(CellAt(d)[1], CellAt(d)[2], apple_x, apple_y)

\* The survivors of maximal combined score.
Maximal == {d \in Survivors : \A e \in Survivors : ScoreOf(e) <= ScoreOf(d)}

\* The position of heading d in the list order.
PlaceIn(order, d) == CHOOSE k \in 1..Len(order) : order[k] = d

\* The heading of set ds that comes first in the list order.
FirstIn(order, ds) ==
    CHOOSE d \in ds : \A e \in ds : PlaceIn(order, d) <= PlaceIn(order, e)

\* C23 as stated: the scoring stage chooses a survivor of maximal combined
\* score, the first of them in the order up, down, left, right in which
\* the path search expands neighbours.
C23_FirstInSearchOrder ==
    (Decided /\ stage = "score") =>
        /\ direction \in Maximal
        /\ direction = FirstIn(EmergencyOrder, Maximal)

\* C23: the scoring stage chooses a survivor of maximal combined score,
\* the first of them in the order left, right, up, down in which
\* _evaluate_moves lists its candidates.
C23_FirstInListOrder ==
    (Decided /\ stage = "score") =>
        /\ direction \in Maximal
        /\ direction = FirstIn(EvalOrder, Maximal)

\* The scoring stage decided between two survivors of the same maximal
\* score which the two orders rank differently.
C23_Witness ==
    /\ Decided
    /\ stage = "score"
    /\ Cardinality(Maximal) >= 2
    /\ FirstIn(EvalOrder, Maximal) # FirstIn(EmergencyOrder, Maximal)

\* ------------------------------------------------------------ trap avoidance

\* The cells of set `open` 4-connected to the cells of `seen`, these
\* included.
RECURSIVE Connected(_, _)
Connected(seen, open) ==
    LET nxt == {n \in UNION {Adjacent(c) : c \in seen} : n \in open} \ seen
    IN  IF nxt = {} THEN seen ELSE Connected(seen \cup nxt, open)

\* The cells of the grid.
AllCells ==
    {<<i * SIZE, j * SIZE>> : i \in 0..((surface[1] - 1) \div SIZE),
                              j \in 0..((surface[2] - 1) \div SIZE)}

\* The pocket of a non-blocked cell c next to the head: the non-blocked
\* cells connected to c without crossing the head's own cell.
Pocket(c) == Connected({c}, {n \in AllCells : Free(n) /\ n # HeadCell})

\* auto_control is about to run on the state.
Deciding == pc = "events" /\ ~pause

\* The candidates of the scoring stage: the non-blocked neighbours of the
\* head that are not behind it.
Candidates == {CellAt(d) : d \in {e \in Directions : e # Reverse(direction) /\ Free(CellAt(e))}}

\* C24: a candidate in a pocket of fewer cells than the body has segments
\* gets a trap-avoidance sub-score below 50.
C24_PocketScoresLow ==
    Deciding =>
        \A c \in Candidates :
            Cardinality(Pocket(c)) < length
                => _calculate_trap_avoidance_score(c[1], c[2]) < 5000

\* The number of non-blocked cells 4-connected to cell c, c included.
Reachable(c) == Cardinality(Connected({c}, {n \in AllCells : Free(n)}))

Min(a, b) == IF a <= b THEN a ELSE b

\* C25: the trap-avoidance sub-score of a candidate is
\* 100 * min(R, L + 5) / (L + 5) for the body length L and the number R of
\* non-blocked cells connected to the candidate; it is 100 whenever R is at
\* least L + 5.
C25_TrapScoreFormula ==
    Deciding =>
        \A c \in Candidates :
            _calculate_trap_avoidance_score(c[1], c[2])
                = (Min(Reachable(c), length + 5) * 10000) \div (length + 5)

\* ---------------------------------------------------------------- flood fill

\* The caps a fill is asked for, and the cells it is started on: the cells
\* of the grid, body included, and the neighbours of the head, walls
\* included.
Caps == (0..MaxCap) \cup {max_depth}
Starts == AllCells \cup Adjacent(HeadCell)

\* The state _flood_fill_count starts its loop in.
FloodStart(c) ==
    [queue |-> << <<c[1], c[2], 0>> >>, visited |-> {}, count |-> 0, done |-> FALSE]

\* C26: _flood_fill_count(start, cap) returns the smaller of cap and the
\* number of non-blocked cells 4-connected to start, 0 for a blocked start;
\* started next to the head, where auto_control calls it, its loop ends
\* within 4 * cap + 2 passes and has counted every cell it visited once.
C26_FloodFillCount ==
    Deciding =>
        \A c \in Starts :
            LET region == Connected({c}, {n \in AllCells : Free(n)})
            IN  \A cap \in Caps :
                    /\ _flood_fill_count(c[1], c[2], cap)
                          = IF Free(c) THEN Min(cap, Cardinality(region)) ELSE 0
                    /\ c \in Adjacent(HeadCell) =>
                          LET end == flood_run(FloodStart(c), 4 * cap + 2, cap)
                          IN  /\ end.done
                              /\ end.count = Cardinality(end.visited)
                              /\ end.visited \subseteq region

\* A fill ran out of cells before the largest cap and was cut short by
\* the smaller ones, in a region where some cell is entered from two
\* sides; another fill started on a body segment.
C26_Witness ==
    /\ Deciding
    /\ \E c \in Starts :
          /\ Free(c)
          /\ Reachable(c) > MaxCap
          /\ Reachable(c) < max_depth
          /\ \E n \in Connected({c}, {m \in AllCells : Free(m)}) :
                Cardinality({m \in Adjacent(n) : Free(m)}) >= 2
    /\ \E c \in Starts : InGrid(c) /\ ~Free(c)

\* The non-blocked cells of the grid.
FreeCells == {c \in AllCells : Free(c)}

\* C27: of two cells scored with the same body length L whose flood-fill
\* counts are both below L, the one with the smaller count has the
\* strictly smaller trap-avoidance score.
C27_TrapScoreMonotone ==
    Deciding =>
        LET scored == {<<_flood_fill_count(c[1], c[2], max_depth),
                         _calculate_trap_avoidance_score(c[1], c[2])>> : c \in FreeCells}
        IN  \A p, q \in scored :
                (p[1] < q[1] /\ q[1] < length) => p[2] < q[2]

\* Two non-blocked cells whose fills count different numbers of cells,
\* both below the body length, one of them a candidate of the head.
C27_Witness ==
    /\ Deciding
    /\ \E c1 \in FreeCells : \E c2 \in Candidates :
          /\ _flood_fill_count(c1[1], c1[2], max_depth)
                < _flood_fill_count(c2[1], c2[2], max_depth)
          /\ _flood_fill_count(c2[1], c2[2], max_depth) < length

\* ------------------------------------------------------------- the sub-scores

\* A sub-score, in 1/100 point, lies in [0, 100].
InRange(v) == 0 <= v /\ v <= 10000

\* The goals the combined score is computed for: the apple and two
\* opposite corners of the grid, the farthest goals there are.
Goals == {GoalCell, <<0, 0>>, <<surface[1] - SIZE, surface[2] - SIZE>>}

\* C28: for a non-blocked candidate and any goal on the grid, the four
\* sub-scores lie in [0, 100], the one-step mobility is 25 times the number
\* of non-blocked neighbours of the candidate, and the combined score is
\* 0.4 progress + 0.3 openness + 0.2 mobility + 0.1 trap avoidance, in
\* [0, 100].
C28_ScoresInRange ==
    Deciding =>
        \A c \in Candidates :
            LET openness == _calculate_safety_score(c[1], c[2])
                mobility == _calculate_mobility_score(c[1], c[2])
                trap == _calculate_trap_avoidance_score(c[1], c[2])
            IN  /\ InRange(openness)
                /\ InRange(mobility)
                /\ InRange(trap)
                /\ mobility = 2500 * Cardinality({n \in Adjacent(c) : Free(n)})
                /\ \A g \in AllCells : InRange(distance_score(c[1], c[2], g[1], g[2]))
                /\ \A g \in Goals :
                      LET total == _calculate_move_score(c[1], c[2], g[1], g[2])
                      IN  /\ total = 4 * distance_score(c[1], c[2], g[1], g[2])
                                     + 3 * openness + 2 * mobility + trap
                          /\ 0 <= total
                          /\ total <= 100000

\* Two candidates of one head: a dead end, whose only open neighbour is
\* the head, and a cell with more open neighbours; the dead end has less
\* than half of its neighbourhood open and a trap-avoidance score short
\* of 100.
C28_Witness ==
    /\ Deciding
    /\ \E c1, c2 \in Candidates :
          /\ _calculate_mobility_score(c1[1], c1[2]) = 2500
          /\ _calculate_mobility_score(c2[1], c2[2]) >= 5000
          /\ _calculate_trap_avoidance_score(c1[1], c1[2]) < 10000
          /\ _calculate_safety_score(c1[1], c1[2]) < 5000

\* ---------------------------------------------------- where the goal can go

\* Game.play is about to relocate the apple: the snake has walked onto it.
Eating == pc = "check" /\ is_collision(snake_x[1], snake_y[1], apple_x, apple_y)

\* C29: every cell of the grid that no body segment occupies is a possible
\* outcome of Apple.move, the cells of the last column and of the last row
\* included.
C29_EveryFreeCellPossible ==
    Eating =>
        LET grown == increase_length(snake_x, snake_y)
            positions == get_positions(grown.x, grown.y)
            outcomes == apple_move(positions)
        IN  \A c \in AllCells :
                c \notin positions => c \in outcomes

\* ------------------------------------------------- the non-terminal update

\* The value vector of state s before the call, all zeros for a state the
\* table does not hold yet.
Stored(s) == IF s \in DOMAIN q_table THEN q_table[s] ELSE zeros

\* C30: for a next state that is not None, learn sets Q[s][a] to
\* Q[s][a] + alpha * (r + gamma * max Q[s'] - Q[s][a]), the values taken
\* before the call and all zeros for a state not yet in the table; every
\* other value of the table is as before, and the only keys added are s
\* and s'.
C30_NonTerminalUpdate ==
    [][(Learnt /\ learned'[1].next_state # None) =>
          LET c == learned'[1]
              k == IndexOf(c.action)
              old == Stored(c.state)[k]
              best == np_max(Stored(c.next_state))
              discounted == times(discount_factor, best)
              new == q_table'[c.state][k]
          IN  /\ 10 * discounted = discount_factor * best
              /\ 10 * (new - old) = lr * (c.reward * Scale + discounted - old)
              /\ DOMAIN q_table' = DOMAIN q_table \cup {c.state, c.next_state}
              /\ \A s \in DOMAIN q_table' : \A i \in 1..Len(actions) :
                    (s # c.state \/ i # k) => q_table'[s][i] = Stored(s)[i]]_vars

\* A non-terminal update with 0 < alpha < 1 towards a next state, not the
\* state itself, whose best value is above 0, on a state that holds a
\* value other than 0 for another action.
C30_Witness ==
    /\ pc = "choose"
    /\ learned # <<>>
    /\ learned[1].next_state # None
    /\ learned[1].next_state # learned[1].state
    /\ lr \in 1..9
    /\ np_max(q_table[learned[1].next_state]) > 0
    /\ \E i \in 1..Len(actions) :
          i # IndexOf(learned[1].action) /\ q_table[learned[1].state][i] # 0

\* ----------------------------------------------------------------------- dfs

\* The preorder of the depth-first traversal of the graph that starts at
\* node n with the nodes of `order` already visited and takes the
\* neighbours of every node in their listed order.
RECURSIVE PreVisit(_, _)
RECURSIVE PreEach(_, _, _)
PreVisit(n, order) ==
    IF \E i \in 1..Len(order) : order[i] = n THEN order
    ELSE PreEach(graph_get(n), 1, Append(order, n))
PreEach(nbrs, k, order) ==
    IF k > Len(nbrs) THEN order
    ELSE PreEach(nbrs, k + 1, PreVisit(nbrs[k], order))

\* The nodes reachable from the nodes of set ns along the edges.
RECURSIVE ReachableNodes(_)
ReachableNodes(ns) ==
    LET nxt == ns \cup UNION {{graph_get(n)[i] : i \in 1..Len(graph_get(n))} : n \in ns}
    IN  IF nxt = ns THEN ns ELSE ReachableNodes(nxt)

\* C31: dfs returns the preorder of the depth-first traversal that takes
\* the neighbours in their listed order: every node reachable from the
\* start once, and no other; it raises ValueError exactly for a start that
\* is no key of the graph.
C31_DfsPreorder ==
    /\ pc = "returned" =>
          /\ traversal_order = PreVisit(start_node, <<>>)
          /\ {traversal_order[i] : i \in 1..Len(traversal_order)}
                = ReachableNodes({start_node})
          /\ \A i, j \in 1..Len(traversal_order) :
                traversal_order[i] = traversal_order[j] => i = j
    /\ pc = "raised" => start_node \notin DOMAIN graph
    /\ pc \in {"loop", "returned"} => start_node \in DOMAIN graph

\* The states that fill, empty and pour moves can reach from the states ss.
RECURSIVE JugReachable(_)
JugReachable(ss) ==
    LET nxt == ss \cup UNION {{possible_states(s[1], s[2])[i] : i \in 1..6} : s \in ss}
    IN  IF nxt = ss THEN ss ELSE JugReachable(nxt)

\* C32: when water_jug_bfs has returned and some state reachable from (0, 0)
\* holds the target in jug 1, in jug 2 or in both jugs together, it has
\* returned True.
C32_ReachableReported ==
    (pc = "returned"
        /\ \E s \in JugReachable({<<0, 0>>}) :
              s[1] = jug_target \/ s[2] = jug_target \/ s[1] + s[2] = jug_target)
    => result = TRUE

\* The cell the heading points to.
Ahead == <<snake_x[1] + Delta(direction)[1], snake_y[1] + Delta(direction)[2]>>

\* What Game.play makes of a walk that has just been made: the apple is
\* eaten first, then the collisions are looked for.
Collides ==
    LET ate == is_collision(snake_x[1], snake_y[1], apple_x, apple_y)
        grown == IF ate THEN increase_length(snake_x, snake_y)
                 ELSE [x |-> snake_x, y |-> snake_y]
    IN  self_collision(grown.x, grown.y) \/ check_wall_collision(grown.x[1], grown.y[1])

\* C33: a walk into a cell that _would_collide calls non-blocked is followed
\* by neither a wall collision nor a self collision.
C33_CollisionsPredicted ==
    [][(pc = "play" /\ pc' = "check" /\ ~_would_collide(Ahead[1], Ahead[2]))
          => ~Collides']_vars

\* A snake long enough for a self collision has walked into a cell next to
\* its body, and nothing is detected.
C33_Witness ==
    /\ pc = "check"
    /\ length >= 5
    /\ ~Collides
    /\ \E i \in 4..length : \E d \in Directions :
          <<snake_x[1] + Delta(d)[1], snake_y[1] + Delta(d)[2]>> = <<snake_x[i], snake_y[i]>>

\* Some neighbour of the head, other than the one behind the heading
\* auto_control found, is non-blocked.
SomeWayOut ==
    \E d \in Directions :
        /\ d # Reverse(dir0)
        /\ ~_would_collide(snake_x[1] + Delta(d)[1], snake_y[1] + Delta(d)[2])

\* C34: with the agent alone setting the heading, a tick on which some
\* non-reversing neighbour of the head is non-blocked ends in neither a wall
\* collision nor a self collision.
C34_AgentAvoidsCollisions ==
    [][(pc = "play" /\ pc' = "check" /\ SomeWayOut) => ~Collides']_vars

\* auto_control has turned the snake away from a blocked cell towards a
\* non-blocked one.
C34_Witness ==
    /\ pc = "play"
    /\ SomeWayOut
    /\ dir0 # direction
    /\ _would_collide(snake_x[1] + Delta(dir0)[1], snake_y[1] + Delta(dir0)[2])
    /\ ~_would_collide(Ahead[1], Ahead[2])

\* The state Game.learning_control reads at its start.
StateNow == get_state(snake_x[1], snake_y[1], apple_x, apple_y, direction)

\* C35: a call of learn that carries the -10 of a collision or the +10 of an
\* eaten apple names the state the move of this tick started from, and an
\* action that sets the heading this move was made with.
C35_RewardCreditedToItsMove ==
    [][(ticks' = ticks + 1 /\ learned' # <<>> /\ learned'[1].reward # 0)
          => /\ learned'[1].state = StateNow
             /\ apply_action(learned'[1].action, direction) = moved']_vars

\* C36: the action a tick of the learning game stores as prev_action is the
\* direction the head moved in on that tick.
C36_StoredActionIsTheMove ==
    [][(ticks' = ticks + 1 /\ ~pause') => prev_action' = moved']_vars

\* C37: while the learning game is paused by a collision, a step makes no
\* decision, no move and no update of the Q-table, unless it is the reset:
\* that one puts a one-segment snake on the start cell heading down and
\* clears prev_state and prev_action, and leaves the Q-table as it was.
C37_PausedUntilReset ==
    [][pause =>
          /\ q_table' = q_table
          /\ ticks' = ticks
          /\ learned' = learned
          /\ \/ /\ pause'
                /\ UNCHANGED <<snake_x, snake_y, direction, apple_x, apple_y,
                               prev_state, prev_action>>
             \/ /\ ~pause'
                /\ snake_x' = <<SIZE>>
                /\ snake_y' = <<SIZE>>
                /\ direction' = "down"
                /\ prev_state' = None
                /\ prev_action' = NoneAction]_vars

\* A game reset after a collision: the new snake, and the table still
\* holding the update the collision made.
C37_Witness ==
    /\ ~pause
    /\ snake_x = <<SIZE>>
    /\ snake_y = <<SIZE>>
    /\ direction = "down"
    /\ prev_state = None
    /\ learned # <<>>
    /\ learned[1].reward = -10
    /\ q_table # <<>>

\* The neighbours of the head that _is_valid_move accepts.
ValidNeighbours ==
    {c \in {<<snake_x[1] + Delta(d)[1], snake_y[1] + Delta(d)[2]>> : d \in Directions} :
        _is_valid_move(c[1], c[2])}

\* C38: after auto_control of the model-based agent, when some neighbour of
\* the head is valid, the heading points to a valid neighbour that no valid
\* neighbour beats in distance to the apple.
C38_HeadsForNearestValid ==
    (pc = "play" /\ ValidNeighbours # {})
    => /\ Ahead \in ValidNeighbours
       /\ \A c \in ValidNeighbours :
             predicted_cost(Ahead[1], Ahead[2]) <= predicted_cost(c[1], c[2])

\* The cost of the edge from u to v in the graph, Far when there is none.
EdgeCost(u, v) ==
    LET out == graph_get(u)
        at == {i \in 1..Len(out) : out[i][1] = v}
    IN  IF at = {} THEN Far ELSE out[CHOOSE i \in at : TRUE][2]

\* The total cost of the list of nodes p.
RECURSIVE PathCost(_)
PathCost(p) ==
    IF Len(p) < 2 THEN 0
    ELSE EdgeCost(p[1], p[2]) + PathCost(Tail(p))

\* The cost of the cheapest path from the start to the goal, Far when the
\* goal cannot be reached.
Cheapest == cheapest(graph, goal_node, AStarNodes)[start_node]

\* What a_star has returned is right: the empty list exactly for a goal out
\* of reach, and otherwise a cheapest path from the start to the goal.
AStarRight ==
    /\ result = <<>> <=> Cheapest = Far
    /\ result # <<>> =>
          /\ result[1] = start_node
          /\ result[Len(result)] = goal_node
          /\ \A i \in 1..(Len(result) - 1) : EdgeCost(result[i], result[i + 1]) # Far
          /\ PathCost(result) = Cheapest

\* A node is expanded once for each cost it is reached at, a cost at most
\* that of a path through all the nodes; an expansion pushes two entries at
\* most, and every pass of the loop but the first pops one of them.
PassLimit == 1 + 2 * AStarNodes * (2 * (AStarNodes - 1) + 1)

\* C39: on a graph without negative costs and with a heuristic that never
\* overestimates, a_star comes to an end, within PassLimit passes of its
\* loop; it raises ValueError exactly when the start or the goal is no key
\* of the graph; and what it returns is the empty list exactly when the goal
\* is out of reach, and otherwise a path from the start to the goal along
\* edges of the graph that no other such path undercuts.
C39_AStarOptimal ==
    /\ pc = "raised" =>
          (start_node \notin DOMAIN graph \/ goal_node \notin DOMAIN graph)
    /\ pc \in {"loop", "returned"} =>
          (start_node \in DOMAIN graph /\ goal_node \in DOMAIN graph)
    /\ pc = "returned" => AStarRight
    /\ passes <= PassLimit

\* a_star has returned the chain 1, 2, 3, ..., although both shortcuts were
\* there, having reached node 3 more cheaply than over its shortcut.
C39_Witness ==
    /\ pc = "returned"
    /\ Len(result) = AStarNodes
    /\ EdgeCost(1, 3) # Far
    /\ EdgeCost(2, AStarNodes) # Far
    /\ 3 \in DOMAIN marked
    /\ marked[3] < EdgeCost(1, 3)
    /\ heuristic[2] > 0

\* The states water_jug_bfs has come across so far.
Explored ==
    marked \cup {jug_queue[i] : i \in 1..Len(jug_queue)}
           \cup (IF pc = "call" THEN {} ELSE DOMAIN parent)

\* The least number of moves after which jug 1 holds the target, starting
\* from the states ss and having made n moves already; -1 when no number of
\* moves does it.
RECURSIVE FewestMoves(_, _)
FewestMoves(ss, n) ==
    LET nxt == ss \cup UNION {{possible_states(s[1], s[2])[i] : i \in 1..6} : s \in ss}
    IN  IF \E s \in ss : s[1] = jug_target THEN n
        ELSE IF nxt = ss THEN -1
        ELSE FewestMoves(nxt, n + 1)

\* C40: water_jug_bfs comes to an end, after no more passes of its loop
\* than there are states of the two jugs; every state it comes across has
\* between 0 and cap1 in jug 1 and between 0 and cap2 in jug 2; and when it
\* returns True, the path it printed starts at (0, 0), goes by single fill,
\* empty or pour moves, ends with the target in jug 1, and counts as many
\* moves as the shortest move sequence that puts the target into jug 1.
C40_JugBfs ==
    /\ passes <= (jug1_capacity + 1) * (jug2_capacity + 1)
    /\ \A s \in Explored :
          /\ 0 <= s[1] /\ s[1] <= jug1_capacity
          /\ 0 <= s[2] /\ s[2] <= jug2_capacity
    /\ (pc = "returned" /\ result = TRUE) =>
          /\ printed # <<>>
          /\ printed[1] = <<0, 0>>
          /\ printed[Len(printed)][1] = jug_target
          /\ \A i \in 1..(Len(printed) - 1) :
                \E k \in 1..6 :
                    printed[i + 1] = possible_states(printed[i][1], printed[i][2])[k]
          /\ Len(printed) - 1 = FewestMoves({<<0, 0>>}, 0)

\* water_jug_bfs has returned True with a path of four moves or more, one of
\* them a pour that left water in both jugs.
C40_Witness ==
    /\ pc = "returned"
    /\ result = TRUE
    /\ Len(printed) >= 5
    /\ \E i \in 1..Len(printed) : printed[i][1] > 0 /\ printed[i][2] > 0

====
